---------------------------- MODULE Spec2Model ----------------------------
(***************************************************************************)
(* Verification model of ts-source-to-json-schema: the module resolver    *)
(* (src/src/ast.ts, src/src/path-utils.ts), the emitter and the parser     *)
(* (src/src/emitter.ts) and the import extractor (src/src/import-parser.ts)*)
(***************************************************************************)
EXTENDS Integers, Sequences, FiniteSets, TLC

(***************************************************************************)
(* Bounds of the model.                                                    *)
(***************************************************************************)
NumFiles   == 3   \* source files on disk
MaxImports == 2   \* import statements in one file
MaxEdges   == 3   \* import statements in the whole file set
NumNames   == 2   \* distinct top-level declaration names
MaxDecls   == 2   \* declarations in one file
NumTypes   == 2   \* declarations handed to the emitter
MaxProps   == 2   \* properties in the whole declaration set
MaxTokens  == 4   \* tokens of a source text before its eof token
MaxChars   == 4   \* characters of a source text
MaxStatements == 2 \* statements of a source text written statement by statement

Files == 1..NumFiles
Names == 1..NumNames

(***************************************************************************)
(* Paths.  Every file f lives in one directory and can be named by two     *)
(* absolute paths: the exact path "/dir/f.ts" (ext = TRUE) and the         *)
(* extensionless path "/dir/f" (ext = FALSE) that resolveExtensions        *)
(* completes.  file = 0 is a path at which nothing exists.                 *)
(***************************************************************************)
NoFile == 0
PathKey(f, e) == [file |-> f, ext |-> e]
MissingPath == PathKey(NoFile, FALSE)
Null == [file |-> -1, ext |-> FALSE]
PathKeys == {PathKey(f, e) : f \in Files, e \in BOOLEAN} \cup {MissingPath}

(***************************************************************************)
(* Module specifiers of import statements.  rel = TRUE is "./f" or         *)
(* "./f.ts"; rel = FALSE is a bare package specifier, and file is the type *)
(* entry the node_modules walk finds for it (0: no such package).          *)
(***************************************************************************)
RelPaths == {[rel |-> TRUE, file |-> f, ext |-> e] : f \in Files, e \in BOOLEAN}
              \cup {[rel |-> TRUE, file |-> NoFile, ext |-> FALSE]}
BarePaths == {[rel |-> FALSE, file |-> f, ext |-> TRUE] : f \in Files \cup {NoFile}}
ModulePaths == RelPaths \cup BarePaths

\* mutant: no specifier counts as relative
isRelativeImportNever(importPath) == FALSE

isRelativeImport(importPath) == importPath.rel

resolveNodeModule(importPath, fromFile) ==
  IF importPath.file = NoFile THEN Null ELSE PathKey(importPath.file, TRUE)

\* mutant: a relative import of a missing file is skipped like a bare one
resolveImportPathLenient(importPath, fromFile, followMode) ==
  IF followMode = "none" THEN Null
  ELSE IF followMode = "local" /\ ~isRelativeImport(importPath) THEN Null
  ELSE IF importPath.file = NoFile THEN Null
  ELSE PathKey(importPath.file, importPath.ext)

resolveImportPath(importPath, fromFile, followMode) ==
  IF followMode = "none" THEN Null
  ELSE IF followMode = "local" /\ ~isRelativeImport(importPath) THEN Null
  ELSE IF isRelativeImport(importPath) THEN PathKey(importPath.file, importPath.ext)
  ELSE IF followMode = "all" THEN resolveNodeModule(importPath, fromFile)
  ELSE Null

resolveExtensions(basePath) == basePath.file


(***************************************************************************)
(* File contents.  A file is unreadable (readFileSync throws), malformed   *)
(* (tokenize / extractImports / parse throws) or yields an import list and *)
(* a declaration list.  A declaration is identified by its name, the file  *)
(* it was parsed from and its position in that file.                       *)
(***************************************************************************)
SeqsUpTo(S, n) == UNION {[1..k -> S] : k \in 0..n}

\* F applied to the value of v
Bind(v, F(_)) == CHOOSE r \in {F(x) : x \in {v}} : TRUE

\* the sequences of seqs, one after the other
RECURSIVE Concat(_)
Concat(seqs) == IF seqs = <<>> THEN <<>> ELSE Head(seqs) \o Concat(Tail(seqs))

Unread == [kind |-> "unread", imports |-> <<>>, names |-> <<>>]
BadContents == {[kind |-> k, imports |-> <<>>, names |-> <<>>] : k \in {"unreadable", "malformed"}}
OkContents(importChoices, nameChoices, room) ==
  {[kind |-> "ok", imports |-> i, names |-> n] :
      i \in {x \in importChoices : Len(x) <= room}, n \in nameChoices}

Declarations(f, names) == [i \in 1..Len(names) |-> [name |-> names[i], file |-> f, pos |-> i]]

Modes == {"none", "local", "all"}
Policies == {"unset", "error", "warn", "silent"}

NoError == [kind |-> "none", name |-> 0, first |-> 0, second |-> 0, path |-> Null]
CannotResolve(p) == [NoError EXCEPT !.kind = "CannotResolve", !.path = p]
ReadError(f) == [NoError EXCEPT !.kind = "ReadError", !.first = f]
ParseFailure(f) == [NoError EXCEPT !.kind = "ParseError", !.first = f]
DuplicateError(n, a, b) == [NoError EXCEPT !.kind = "Duplicate", !.name = n, !.first = a, !.second = b]

VARIABLES
  followImports,   \* options.followImports
  onDuplicate,     \* options.onDuplicateDeclarations ("unset": not given)
  disk,            \* file -> content, fixed at the first read of the file
  visited,         \* ModuleResolver.visited
  modules,         \* ModuleResolver.modules, in insertion order
  stack,           \* active resolveModule calls: file and index of the next import
  pending,         \* argument of a resolveModule call that has not yet run, or Null
  reads,           \* file -> number of times it was read and parsed
  phase,           \* "init", "resolving", "done", "failed"
  result,          \* the declaration list resolveFromEntry returned
  warnings,        \* names reported by console.warn
  error,           \* the error resolveFromEntry threw
  calls            \* the resolveFromEntry calls made so far: arguments and outcome

rvars == <<followImports, onDuplicate, disk, visited, modules, stack, pending,
           reads, phase, result, warnings, error, calls>>

VARIABLES
  declarations,    \* Emitter.declarations, in insertion order
  options,         \* Emitter.options
  document,        \* the schema document emit() returned
  ephase           \* "idle", "constructed", "emitted", "threw"

evars == <<declarations, options, document, ephase>>

VARIABLES
  tokens,          \* the token sequence scanned so far, without its eof token
  tphase,          \* "idle", "scanning", "returned", "threw"
  outcome,         \* what Parser.parse / extractImports returned or threw
  statements       \* the statements the source text was written from

tvars == <<tokens, tphase, outcome, statements>>

VARIABLES
  source,      \* tokenize: the characters of the source text
  index,       \* tokenize: i, the index of the next character, from 0
  lineNo,      \* tokenize: line, the line of the next character
  colNo,       \* tokenize: col, the column of the next character
  scanned,     \* tokenize: its tokens array
  lphase       \* "idle", "typing", "scanning", "returned"
lvars == <<source, index, lineNo, colNo, scanned, lphase>>

vars == <<rvars, evars, tvars, lvars>>

MaxDepth == 2 * NumFiles + 1

RECURSIVE EdgesIn(_, _)
EdgesIn(d, f) == IF f = 0 THEN 0 ELSE Len(d[f].imports) + EdgesIn(d, f - 1)

ModuleIndex(mods, f) ==
  IF \E i \in 1..Len(mods) : mods[i].filePath = f
  THEN CHOOSE i \in 1..Len(mods) : mods[i].filePath = f
  ELSE 0

\* mutant: a new key is put in front
ModulesSetInFront(mods, f, m) ==
  IF ModuleIndex(mods, f) = 0 THEN <<m>> \o mods
  ELSE [mods EXCEPT ![ModuleIndex(mods, f)] = m]

\* Map.set: a new key is appended, an existing key keeps its position
ModulesSet(mods, f, m) ==
  IF ModuleIndex(mods, f) = 0 THEN Append(mods, m)
  ELSE [mods EXCEPT ![ModuleIndex(mods, f)] = m]

\* mutant: a missing policy falls back to warn
duplicateModeDefaultWarn(p) == IF p = "unset" THEN "warn" ELSE p

duplicateMode(p) == IF p = "unset" THEN "error" ELSE p

\* mutant: a duplicate from a later file is kept instead of skipped
RECURSIVE mergeFromKeepAll(_, _, _, _, _, _, _)
mergeFromKeepAll(mods, m, d, all, nameMap, warned, mode) ==
  IF m > Len(mods) THEN [ok |-> TRUE, decls |-> all, warned |-> warned, error |-> NoError]
  ELSE IF d > Len(mods[m].declarations)
  THEN mergeFromKeepAll(mods, m + 1, 1, all, nameMap, warned, mode)
  ELSE LET decl == mods[m].declarations[d]
           filePath == mods[m].filePath
           existing == nameMap[decl.name]
       IN IF existing # NoFile /\ existing # filePath /\ mode = "error"
          THEN [ok |-> FALSE, decls |-> <<>>, warned |-> warned,
                error |-> DuplicateError(decl.name, existing, filePath)]
          ELSE mergeFromKeepAll(mods, m, d + 1, Append(all, decl),
                                [nameMap EXCEPT ![decl.name] = filePath], warned, mode)

RECURSIVE mergeFrom(_, _, _, _, _, _, _)
mergeFrom(mods, m, d, all, nameMap, warned, mode) ==
  IF m > Len(mods) THEN [ok |-> TRUE, decls |-> all, warned |-> warned, error |-> NoError]
  ELSE IF d > Len(mods[m].declarations)
  THEN mergeFrom(mods, m + 1, 1, all, nameMap, warned, mode)
  ELSE LET decl == mods[m].declarations[d]
           filePath == mods[m].filePath
           existing == nameMap[decl.name]
       IN IF existing # NoFile /\ existing # filePath
          THEN IF mode = "error"
               THEN [ok |-> FALSE, decls |-> <<>>, warned |-> warned,
                     error |-> DuplicateError(decl.name, existing, filePath)]
               ELSE mergeFrom(mods, m, d + 1, all, nameMap,
                              IF mode = "warn" THEN Append(warned, decl.name) ELSE warned, mode)
          ELSE mergeFrom(mods, m, d + 1, Append(all, decl),
                         [nameMap EXCEPT ![decl.name] = filePath], warned, mode)

\* mutant: the modules are merged newest first
ReverseSeq(q) == [i \in 1..Len(q) |-> q[Len(q) + 1 - i]]
mergeDeclarationsLastWins(mods, policy) ==
  mergeFrom(ReverseSeq(mods), 1, 1, <<>>, [n \in Names |-> NoFile], <<>>, duplicateMode(policy))

mergeDeclarations(mods, policy) ==
  mergeFrom(mods, 1, 1, <<>>, [n \in Names |-> NoFile], <<>>, duplicateMode(policy))

(***************************************************************************)
(* The resolver as a state machine.                                        *)
(***************************************************************************)
RInit(modes, policies) ==
  /\ followImports \in modes
  /\ onDuplicate \in policies
  /\ disk = [f \in Files |-> Unread]
  /\ visited = {}
  /\ modules = <<>>
  /\ stack = <<>>
  /\ pending = Null
  /\ reads = [f \in Files |-> 0]
  /\ phase = "init"
  /\ result = <<>>
  /\ warnings = <<>>
  /\ error = NoError
  /\ calls = <<>>

\* a call that has not returned, and the same call once it returned or threw
Running(entryPath) ==
  [entryPath |-> entryPath, followImports |-> followImports, onDuplicate |-> onDuplicate,
   outcome |-> "running", result |-> <<>>, error |-> NoError]
Returned(how, r, e) ==
  [calls EXCEPT ![Len(calls)].outcome = how, ![Len(calls)].result = r,
                ![Len(calls)].error = e]

\* resolveFromEntry: normalise the entry path and call resolveModule on it
ResolveFromEntry(entries) ==
  /\ phase = "init"
  /\ \E entryPath \in entries :
        /\ pending' = entryPath
        /\ calls' = Append(calls, Running(entryPath))
  /\ phase' = "resolving"
  /\ UNCHANGED <<followImports, onDuplicate, disk, visited, modules, stack, reads,
                 result, warnings, error>>
  /\ UNCHANGED <<evars, tvars, lvars>>

Fail(e) ==
  /\ phase' = "failed"
  /\ error' = e
  /\ pending' = Null
  /\ stack' = <<>>
  /\ calls' = Returned("threw", <<>>, e)

\* mutant: the visited set is never consulted
NeverVisited(filePath) == FALSE

\* resolveModule, step 1: the path was visited before
AlreadyVisited(filePath) == filePath \in visited

EnterVisited ==
  /\ phase = "resolving" /\ pending # Null
  /\ AlreadyVisited(pending)
  /\ pending' = Null
  /\ UNCHANGED <<followImports, onDuplicate, disk, visited, modules, stack, reads,
                 phase, result, warnings, error, calls>>
  /\ UNCHANGED <<evars, tvars, lvars>>

\* resolveModule, step 2: no file behind the path
EnterUnresolvable ==
  /\ phase = "resolving" /\ pending # Null
  /\ ~AlreadyVisited(pending)
  /\ resolveExtensions(pending) = NoFile
  /\ visited' = visited \cup {pending}
  /\ Fail(CannotResolve(pending))
  /\ UNCHANGED <<followImports, onDuplicate, disk, modules, reads, result, warnings>>
  /\ UNCHANGED <<evars, tvars, lvars>>

\* resolveModule, steps 3 and 4: read, tokenize, extract imports, parse, store
EnterRead(contents) ==
  /\ phase = "resolving" /\ pending # Null
  /\ ~AlreadyVisited(pending)
  /\ resolveExtensions(pending) # NoFile
  /\ Len(stack) < MaxDepth
  /\ LET resolvedPath == resolveExtensions(pending) IN
     /\ visited' = visited \cup {pending}
     /\ \E c \in (IF disk[resolvedPath] = Unread THEN contents ELSE {disk[resolvedPath]}) :
          /\ disk' = [disk EXCEPT ![resolvedPath] = c]
          /\ reads' = [reads EXCEPT ![resolvedPath] = @ + 1]
          /\ IF c.kind = "unreadable"
             THEN Fail(ReadError(resolvedPath)) /\ UNCHANGED modules
             ELSE IF c.kind = "malformed"
             THEN Fail(ParseFailure(resolvedPath)) /\ UNCHANGED modules
             ELSE /\ modules' = ModulesSet(modules, resolvedPath,
                                  [filePath |-> resolvedPath,
                                   declarations |-> Declarations(resolvedPath, c.names),
                                   imports |-> c.imports])
                  /\ stack' = Append(stack, [file |-> resolvedPath, i |-> 1])
                  /\ pending' = Null
                  /\ UNCHANGED <<phase, error, calls>>
  /\ UNCHANGED <<followImports, onDuplicate, result, warnings>>
  /\ UNCHANGED <<evars, tvars, lvars>>

Top == stack[Len(stack)]
TopImports == modules[ModuleIndex(modules, Top.file)].imports

\* resolveModule, step 5: one iteration of the loop over the imports
ImportStep ==
  /\ phase = "resolving" /\ pending = Null /\ stack # <<>>
  /\ Top.i <= Len(TopImports)
  /\ LET resolved == resolveImportPath(TopImports[Top.i], Top.file, followImports) IN
       pending' = resolved
  /\ stack' = [stack EXCEPT ![Len(stack)].i = @ + 1]
  /\ UNCHANGED <<followImports, onDuplicate, disk, visited, modules, reads, phase,
                 result, warnings, error, calls>>
  /\ UNCHANGED <<evars, tvars, lvars>>

\* resolveModule returns to its caller
Return ==
  /\ phase = "resolving" /\ pending = Null /\ stack # <<>>
  /\ Top.i > Len(TopImports)
  /\ stack' = SubSeq(stack, 1, Len(stack) - 1)
  /\ UNCHANGED <<followImports, onDuplicate, disk, visited, modules, pending, reads,
                 phase, result, warnings, error, calls>>
  /\ UNCHANGED <<evars, tvars, lvars>>

\* resolveFromEntry, after the traversal: mergeDeclarations
Merge ==
  /\ phase = "resolving" /\ pending = Null /\ stack = <<>>
  /\ LET r == mergeDeclarations(modules, onDuplicate) IN
       /\ phase' = IF r.ok THEN "done" ELSE "failed"
       /\ result' = r.decls
       /\ warnings' = r.warned
       /\ error' = r.error
       /\ calls' = Returned(IF r.ok THEN "returned" ELSE "threw", r.decls, r.error)
  /\ UNCHANGED <<followImports, onDuplicate, disk, visited, modules, stack, pending, reads>>
  /\ UNCHANGED <<evars, tvars, lvars>>

(***************************************************************************)
(* The emitter (src/src/emitter.ts).  Type nodes, declarations and schemas *)
(* are records.  The declaration lists handed to the emitter hold          *)
(* interfaces and type aliases with distinct names and no extends clause;  *)
(* the property types are the ones built below.                            *)
(***************************************************************************)
TypeName == <<"A", "B", "C", "D">>
PropName == <<"a", "b", "c", "d">>
TypeNames == {TypeName[i] : i \in 1..NumTypes}

Primitive == [kind |-> "primitive", value |-> "string"]
LiteralString(v) == [kind |-> "literal_string", value |-> v]
Reference(n) == [kind |-> "reference", name |-> n, typeArgs |-> <<>>]
Generic(n, args) == [kind |-> "reference", name |-> n, typeArgs |-> args]
ArrayOf(t) == [kind |-> "array", element |-> t]
NullType == [kind |-> "primitive", value |-> "null"]
Union(members) == [kind |-> "union", members |-> members]
\* parsePrimary: the node of a type written between parentheses
Parenthesized(inner) == [kind |-> "parenthesized", inner |-> inner]
NoIndex == [keyType |-> "none"]
IndexSignature(v) == [keyType |-> "string", valueType |-> v]
ObjectType(props, idx) == [kind |-> "object", properties |-> props, indexSignature |-> idx]

\* tags.additionalProperties of a declaration or property; NoTag: the tag is not written
NoTag == "undefined"
\* description is the text of a JSDoc comment; tags is the value of its
\* additionalProperties tag and jsdoc its other tags, [key, value] in order
NoDescription == "undefined"
Property(n, t, tag) ==
  [name |-> n, type |-> t, optional |-> FALSE, tags |-> tag,
   description |-> NoDescription, readonly |-> FALSE, jsdoc |-> <<>>]
Interface(n, props, idx, tag) ==
  [kind |-> "interface", name |-> n, properties |-> props, indexSignature |-> idx, tags |-> tag,
   description |-> NoDescription]
TypeAlias(n, t, tag) ==
  [kind |-> "type_alias", name |-> n, type |-> t, tags |-> tag, description |-> NoDescription]

\* JSON Schema values; a key the code leaves out is Absent (or an empty list)
Absent == [t |-> "absent"]
EmptySchema == [t |-> "any"]
BoolSchema(b) == [t |-> "boolean", value |-> b]
TypeSchema(ty) == [t |-> "type", type |-> ty]
DateSchema == [t |-> "type", type |-> "string", format |-> "date-time"]
RefSchema(n) == [t |-> "ref", ref |-> n]
ArraySchema(items) == [t |-> "array", items |-> items]
ObjectSchema(props, required, ap) ==
  [t |-> "object", properties |-> props, required |-> required, additionalProperties |-> ap]
\* the value of a call that exceeded the call stack (RangeError)
Overflow == [t |-> "overflow"]
ConstSchema(v) == [t |-> "const", value |-> v]
\* {type: "string", enum: values}
EnumSchema(values) == [t |-> "enum", type |-> "string", enum |-> values]
AnyOf(schemas) == [t |-> "anyOf", anyOf |-> schemas]
\* schema with its type replaced by [schema.type, "null"]
Nullable(schema) == [t |-> "nullable", schema |-> schema]
\* typeof schema.type === "string"
HasStringType(schema) == schema.t \in {"type", "array", "object", "enum"}
NullSchema == [t |-> "null"]

\* the deepest nesting of emit calls; a non-repeating chain of calls passes
\* through every property at most once
StackLimit == 4 * MaxProps + 4

toLowerCase(v) == IF v = "True" THEN "true" ELSE IF v = "FALSE" THEN "false" ELSE v

HasDeclaration(n) == \E i \in 1..Len(declarations) : declarations[i].name = n
GetDeclaration(n) == declarations[CHOOSE i \in 1..Len(declarations) : declarations[i].name = n]

RECURSIVE SelectProps(_, _)
SelectProps(props, keep) ==
  IF props = <<>> THEN <<>>
  ELSE IF Head(props).name \in keep THEN <<Head(props)>> \o SelectProps(Tail(props), keep)
  ELSE SelectProps(Tail(props), keep)

emitPrimitive(value) ==
  IF value \in {"string", "number", "boolean", "null", "object"} THEN TypeSchema(value)
  ELSE EmptySchema

\* the additionalProperties case of applyJSDocTags
applyAdditionalProperties(schema, tags) ==
  IF tags # NoTag /\ schema.t = "object"
  THEN IF toLowerCase(tags) = "true" THEN [schema EXCEPT !.additionalProperties = BoolSchema(TRUE)]
       ELSE IF toLowerCase(tags) = "false" THEN [schema EXCEPT !.additionalProperties = BoolSchema(FALSE)]
       ELSE schema
  ELSE schema

\* schema[key] = value
With(schema, key, value) ==
  Bind(schema, LAMBDA s : [k \in DOMAIN s \cup {key} |-> IF k = key THEN value ELSE s[k]])

\* Number(value) and JSON.parse(value) of the decimal texts "0" and "1"
Number(value) == IF value = "0" THEN 0 ELSE 1
\* one case of the switch of applyJSDocTags, additionalProperties apart
applyTag(schema, key, value) ==
  IF key \in {"minimum", "maximum", "minLength", "maxLength"} THEN With(schema, key, Number(value))
  ELSE IF key \in {"pattern", "format", "title"} THEN With(schema, key, value)
  ELSE IF key = "default" THEN With(schema, key, Number(value))
  ELSE IF key \in {"example", "examples"}
  THEN With(schema, "examples",
            (IF "examples" \in DOMAIN schema THEN schema.examples ELSE <<>>) \o <<Number(value)>>)
  ELSE IF key = "deprecated" THEN With(schema, key, TRUE)
  ELSE schema
RECURSIVE applyTags(_, _)
applyTags(schema, jsdoc) ==
  Bind(schema, LAMBDA s :
    IF jsdoc = <<>> THEN s
    ELSE applyTags(applyTag(s, Head(jsdoc).key, Head(jsdoc).value), Tail(jsdoc)))

\* applyJSDocTags
applyJSDocTags(schema, tags, jsdoc) == applyTags(applyAdditionalProperties(schema, tags), jsdoc)

\* extractKeyNames: the key names, or none (HasKeyNames is false where the code returns null)
extractKeyNames(node) ==
  IF node.kind = "literal_string" THEN {node.value}
  ELSE IF node.kind = "union" THEN {node.members[k].value : k \in 1..Len(node.members)}
  ELSE {}
HasKeyNames(node) ==
  \/ node.kind = "literal_string"
  \/ /\ node.kind = "union"
     /\ \A k \in 1..Len(node.members) : node.members[k].kind = "literal_string"

\* getProperties: the properties behind an object type or a reference, or none
HasProperties(node) ==
  \/ node.kind = "object"
  \/ /\ node.kind = "reference" /\ HasDeclaration(node.name)
     /\ \/ GetDeclaration(node.name).kind = "interface"
        \/ /\ GetDeclaration(node.name).kind = "type_alias"
           /\ GetDeclaration(node.name).type.kind = "object"
getProperties(node) ==
  IF node.kind = "object" THEN node.properties
  ELSE IF GetDeclaration(node.name).kind = "interface" THEN GetDeclaration(node.name).properties
  ELSE GetDeclaration(node.name).type.properties

\* props[prop.name] = propSchema, one assignment after the other: a key stays
\* where it was first set and holds what was set last
KeyedKeepAll(entries) == entries
Keyed(entries) ==
  LET first == SelectSeq([i \in 1..Len(entries) |-> i],
                         LAMBDA i : \A j \in 1..(i - 1) : entries[j].name # entries[i].name)
      last(i) == CHOOSE j \in i..Len(entries) :
                    /\ entries[j].name = entries[i].name
                    /\ \A l \in (j + 1)..Len(entries) : entries[l].name # entries[i].name
  IN [k \in 1..Len(first) |-> [name |-> entries[first[k]].name,
                               schema |-> entries[last(first[k])].schema]]

RECURSIVE flattenUnion(_)
flattenUnion(members) ==
  Concat([k \in 1..Len(members) |->
            IF members[k].kind = "union" THEN flattenUnion(members[k].members)
            ELSE <<members[k]>>])

RECURSIVE emitType(_, _)
RECURSIVE emitUnion(_, _)
RECURSIVE emitObjectType(_, _, _, _)
RECURSIVE emitReference(_, _)
RECURSIVE resolveUtilityType(_, _, _)
RECURSIVE resolvePartial(_, _)
RECURSIVE resolvePick(_, _, _)
RECURSIVE resolveOmit(_, _, _)

emitObjectType(properties, indexSignature, tags, depth) ==
  IF depth = 0 THEN Overflow
  ELSE
  LET propSchema(p) ==
        Bind(emitType(p.type, depth - 1), LAMBDA s :
          Bind(IF options.includeJSDoc /\ p.description # NoDescription
               THEN With(s, "description", p.description) ELSE s, LAMBDA described :
            Bind(IF options.includeJSDoc
                 THEN applyJSDocTags(described, p.tags, p.jsdoc) ELSE described, LAMBDA tagged :
              IF p.readonly THEN With(tagged, "readOnly", TRUE) ELSE tagged)))
      props == Keyed([i \in 1..Len(properties) |->
                        [name |-> properties[i].name, schema |-> propSchema(properties[i])]])
      required == SelectSeq([i \in 1..Len(properties) |->
                               IF properties[i].optional THEN "" ELSE properties[i].name],
                            LAMBDA n : n # "")
      ap == IF indexSignature # NoIndex
            THEN emitType(indexSignature.valueType, depth - 1)
            ELSE IF options.includeJSDoc /\ tags # NoTag
            THEN IF toLowerCase(tags) = "true" THEN BoolSchema(TRUE)
                 ELSE IF toLowerCase(tags) = "false" THEN BoolSchema(FALSE)
                 ELSE Absent
            ELSE IF options.strictObjects THEN BoolSchema(FALSE)
            ELSE IF options.additionalProperties # "undefined"
            THEN BoolSchema(options.additionalProperties = "true")
            ELSE Absent
  IN ObjectSchema(props, required, ap)

emitType(node, depth) ==
  IF depth = 0 THEN Overflow
  ELSE IF node.kind = "primitive" THEN emitPrimitive(node.value)
  ELSE IF node.kind = "literal_string" THEN ConstSchema(node.value)
  ELSE IF node.kind = "object"
  THEN emitObjectType(node.properties, node.indexSignature, NoTag, depth - 1)
  ELSE IF node.kind = "array" THEN ArraySchema(emitType(node.element, depth - 1))
  ELSE IF node.kind = "union" THEN emitUnion(node.members, depth - 1)
  ELSE IF node.kind = "reference" THEN emitReference(node, depth - 1)
  ELSE IF node.kind = "parenthesized" THEN emitType(node.inner, depth - 1)
  ELSE EmptySchema

\* emitUnion, without the branch for unions of number literals
emitUnion(members, depth) ==
  LET flat == flattenUnion(members)
      IsNull(m) == m.kind = "primitive" /\ m.value \in {"null", "undefined"}
      NotNull(m) == ~IsNull(m)
      nonNullMembers == SelectSeq(flat, NotNull)
  IN IF \A k \in 1..Len(flat) : flat[k].kind = "literal_string"
     THEN EnumSchema([k \in 1..Len(flat) |-> flat[k].value])
     ELSE IF (\E k \in 1..Len(flat) : IsNull(flat[k])) /\ Len(nonNullMembers) = 1
     THEN LET schema == emitType(nonNullMembers[1], depth)
          IN IF HasStringType(schema) THEN Nullable(schema)
             ELSE AnyOf(<<schema, TypeSchema("null")>>)
     ELSE AnyOf([k \in 1..Len(flat) |-> emitType(flat[k], depth)])

emitReference(node, depth) ==
  IF node.name = "Date" /\ node.typeArgs = <<>> THEN DateSchema
  ELSE IF Len(node.typeArgs) > 0 /\ resolveUtilityType(node.name, node.typeArgs, depth) # NullSchema
  THEN resolveUtilityType(node.name, node.typeArgs, depth)
  ELSE RefSchema(node.name)

\* the Partial, Pick and Omit cases of the switch; every other name is a declared type
resolveUtilityType(name, typeArgs, depth) ==
  IF name = "Partial" THEN resolvePartial(typeArgs[1], depth)
  ELSE IF name = "Pick"
  THEN IF Len(typeArgs) = 2 THEN resolvePick(typeArgs[1], typeArgs[2], depth) ELSE NullSchema
  ELSE IF name = "Omit"
  THEN IF Len(typeArgs) = 2 THEN resolveOmit(typeArgs[1], typeArgs[2], depth) ELSE NullSchema
  ELSE NullSchema

resolvePartial(target, depth) ==
  IF HasProperties(target)
  THEN emitObjectType([i \in 1..Len(getProperties(target)) |->
                          [getProperties(target)[i] EXCEPT !.optional = TRUE]],
                      NoIndex, NoTag, depth)
  ELSE emitType(target, depth)

resolvePick(target, keys, depth) ==
  IF ~HasKeyNames(keys) THEN emitType(target, depth)
  ELSE IF ~HasProperties(target) THEN emitType(target, depth)
  ELSE emitObjectType(SelectProps(getProperties(target), extractKeyNames(keys)),
                      NoIndex, NoTag, depth)

resolveOmit(target, keys, depth) ==
  IF ~HasKeyNames(keys) THEN emitType(target, depth)
  ELSE IF ~HasProperties(target) THEN emitType(target, depth)
  ELSE emitObjectType(SelectProps(getProperties(target),
                                  {getProperties(target)[k].name :
                                      k \in 1..Len(getProperties(target))}
                                     \ extractKeyNames(keys)),
                      NoIndex, NoTag, depth)

\* schema.description = decl.description, under includeJSDoc
Described(schema, decl) ==
  IF options.includeJSDoc /\ decl.description # NoDescription
  THEN With(schema, "description", decl.description) ELSE schema

\* emitInterface, for an interface without an extends clause
emitInterface(decl) ==
  Described(emitObjectType(decl.properties, decl.indexSignature, decl.tags, StackLimit), decl)

emitTypeAlias(decl) ==
  LET schema == Described(emitType(decl.type, StackLimit), decl) IN
    IF options.includeJSDoc /\ decl.tags # NoTag /\ schema.t = "object"
    THEN IF toLowerCase(decl.tags) = "true"
         THEN [schema EXCEPT !.additionalProperties = BoolSchema(TRUE)]
         ELSE IF toLowerCase(decl.tags) = "false"
         THEN [schema EXCEPT !.additionalProperties = BoolSchema(FALSE)]
         ELSE schema
    ELSE schema

emitDeclaration(decl) ==
  IF decl.kind = "interface" THEN emitInterface(decl) ELSE emitTypeAlias(decl)

RECURSIVE HasOverflow(_)
HasOverflow(schema) ==
  IF schema.t = "overflow" THEN TRUE
  ELSE IF schema.t = "array" THEN HasOverflow(schema.items)
  ELSE IF schema.t = "nullable" THEN HasOverflow(schema.schema)
  ELSE IF schema.t = "anyOf" THEN \E i \in 1..Len(schema.anyOf) : HasOverflow(schema.anyOf[i])
  ELSE IF schema.t = "object"
  THEN \/ \E i \in 1..Len(schema.properties) : HasOverflow(schema.properties[i].schema)
       \/ HasOverflow(schema.additionalProperties)
  ELSE FALSE


\* getReferencedTypes: the names behind the $ref pointers of a schema, in key order
RECURSIVE getReferencedTypes(_)
getReferencedTypes(schema) ==
  IF schema.t = "ref" THEN <<schema.ref>>
  ELSE IF schema.t = "array" THEN getReferencedTypes(schema.items)
  ELSE IF schema.t = "nullable" THEN getReferencedTypes(schema.schema)
  ELSE IF schema.t = "anyOf"
  THEN Concat([i \in 1..Len(schema.anyOf) |-> getReferencedTypes(schema.anyOf[i])])
  ELSE IF schema.t = "object"
  THEN Concat([i \in 1..Len(schema.properties) |->
                  getReferencedTypes(schema.properties[i].schema)])
         \o getReferencedTypes(schema.additionalProperties)
  ELSE <<>>

RECURSIVE canReach(_, _, _, _)
RECURSIVE canReachAny(_, _, _, _, _)
\* canReach; the visited set is shared by the calls of one search
canReach(startType, targetType, seen, defs) ==
  IF startType = targetType THEN [found |-> TRUE, seen |-> seen]
  ELSE IF startType \in seen THEN [found |-> FALSE, seen |-> seen]
  ELSE IF startType \notin DOMAIN defs THEN [found |-> FALSE, seen |-> seen \cup {startType}]
  ELSE canReachAny(getReferencedTypes(defs[startType]), 1, targetType,
                   seen \cup {startType}, defs)

\* the loop of canReach over the references of one schema
canReachAny(refs, i, targetType, seen, defs) ==
  IF i > Len(refs) THEN [found |-> FALSE, seen |-> seen]
  ELSE IF refs[i] = targetType THEN [found |-> TRUE, seen |-> seen]
  ELSE LET r == canReach(refs[i], targetType, seen, defs) IN
         IF r.found THEN r ELSE canReachAny(refs, i + 1, targetType, r.seen, defs)

isTransitivelySelfReferential(typeName, defs) ==
  \E i \in 1..Len(getReferencedTypes(defs[typeName])) :
     canReach(getReferencedTypes(defs[typeName])[i], typeName, {}, defs).found

\* isBuiltInType: the names findDirectReferences leaves out
BuiltIns ==
  {"Date", "Promise", "Array", "Set", "Map", "Record",
   "Partial", "Required", "Pick", "Omit", "Readonly", "NonNullable"}
isBuiltInType(name) == name \in BuiltIns

\* findDirectReferences.collectRefs, the names in the order they are pushed;
\* the key type of an index signature is a primitive and holds none
RECURSIVE collectRefs(_)
collectRefs(typeNode) ==
  IF typeNode.kind = "reference"
  THEN (IF isBuiltInType(typeNode.name) THEN <<>> ELSE <<typeNode.name>>)
         \o Concat([k \in 1..Len(typeNode.typeArgs) |-> collectRefs(typeNode.typeArgs[k])])
  ELSE IF typeNode.kind = "object"
  THEN Concat([k \in 1..Len(typeNode.properties) |-> collectRefs(typeNode.properties[k].type)])
         \o (IF typeNode.indexSignature # NoIndex
             THEN collectRefs(typeNode.indexSignature.valueType) ELSE <<>>)
  ELSE IF typeNode.kind = "array" THEN collectRefs(typeNode.element)
  ELSE IF typeNode.kind = "union"
  THEN Concat([k \in 1..Len(typeNode.members) |-> collectRefs(typeNode.members[k])])
  ELSE IF typeNode.kind = "parenthesized" THEN collectRefs(typeNode.inner)
  ELSE <<>>

findDirectReferences(decl) ==
  IF decl.kind = "interface"
  THEN Concat([k \in 1..Len(decl.properties) |-> collectRefs(decl.properties[k].type)])
         \o (IF decl.indexSignature # NoIndex
             THEN collectRefs(decl.indexSignature.valueType) ELSE <<>>)
  ELSE collectRefs(decl.type)

RECURSIVE collectTransitiveReferences(_, _)
RECURSIVE collectEach(_, _, _)
\* collectTransitiveReferences; visited is shared by the calls of one search
collectTransitiveReferences(startTypeName, seen) ==
  Bind(seen, LAMBDA v :
    IF startTypeName \in v THEN v
    ELSE IF ~HasDeclaration(startTypeName) THEN v \cup {startTypeName}
    ELSE collectEach(findDirectReferences(GetDeclaration(startTypeName)), 1,
                     v \cup {startTypeName}))

\* for (const ref of directRefs) this.collectTransitiveReferences(ref, visited)
collectEach(refs, k, seen) ==
  Bind(seen, LAMBDA v :
    IF k > Len(refs) THEN v
    ELSE collectEach(refs, k + 1, collectTransitiveReferences(refs[k], v)))

\* a $ref that convertRefsToDefinitions has rewritten to #/definitions/<n>
DefinitionsRef(n) == [t |-> "ref", ref |-> n, under |-> "definitions"]

RECURSIVE convertRefsToDefinitions(_)
convertRefsToDefinitions(schema) ==
  IF schema.t = "ref" THEN DefinitionsRef(schema.ref)
  ELSE IF schema.t = "array"
  THEN [schema EXCEPT !.items = convertRefsToDefinitions(schema.items)]
  ELSE IF schema.t = "nullable"
  THEN [schema EXCEPT !.schema = convertRefsToDefinitions(schema.schema)]
  ELSE IF schema.t = "anyOf"
  THEN [schema EXCEPT !.anyOf = [i \in 1..Len(schema.anyOf) |->
                                    convertRefsToDefinitions(schema.anyOf[i])]]
  ELSE IF schema.t = "object"
  THEN [schema EXCEPT
          !.properties = [k \in 1..Len(schema.properties) |->
                            [schema.properties[k] EXCEPT
                               !.schema = convertRefsToDefinitions(schema.properties[k].schema)]],
          !.additionalProperties = convertRefsToDefinitions(schema.additionalProperties)]
  ELSE schema

\* emitDeclarationStandalone: the schema of decl and its definitions block
emitDeclarationStandalone(decl) ==
  LET referencedTypes == collectEach(findDirectReferences(decl), 1, {})
      selfReferenced == decl.name \in referencedTypes
      keys == {n \in referencedTypes :
                 IF n = decl.name THEN selfReferenced ELSE HasDeclaration(n)}
  IN [schema |-> convertRefsToDefinitions(emitDeclaration(decl)),
      definitions |-> [n \in keys |->
                         convertRefsToDefinitions(emitDeclaration(GetDeclaration(n)))]]

NoDocument == [root |-> Absent, defs |-> <<>>]
DefaultOptions ==
  [rootType |-> "", strictObjects |-> FALSE, additionalProperties |-> "undefined",
   includeJSDoc |-> TRUE]

EIdle ==
  /\ declarations = <<>>
  /\ options = DefaultOptions
  /\ document = NoDocument
  /\ ephase = "idle"

\* new Emitter(declarations, options), before its loop over the declarations
EInit(optionChoices) ==
  /\ declarations = <<>>
  /\ options \in optionChoices
  /\ document = NoDocument
  /\ ephase = "constructed"

PropsOf(decl) ==
  IF decl.kind = "interface" THEN Len(decl.properties)
  ELSE IF decl.type.kind = "object" THEN Len(decl.type.properties) ELSE 0
RECURSIVE PropsIn(_)
PropsIn(decls) == IF decls = <<>> THEN 0 ELSE PropsOf(Head(decls)) + PropsIn(Tail(decls))

\* the constructor's loop: this.declarations.set(decl.name, decl)
Declare(declChoices) ==
  /\ ephase = "constructed"
  /\ Len(declarations) < NumTypes
  /\ \E decl \in declChoices :
        /\ \/ decl.name = TypeName[Len(declarations) + 1]
           \/ decl.name \in BuiltIns /\ ~HasDeclaration(decl.name)
        /\ PropsIn(declarations) + PropsOf(decl) <= MaxProps
        /\ declarations' = Append(declarations, decl)
  /\ UNCHANGED <<options, document, ephase>>
  /\ UNCHANGED <<rvars, tvars, lvars>>

Defs == [n \in {declarations[i].name : i \in 1..Len(declarations)} |->
            emitDeclaration(GetDeclaration(n))]
Without(defs, n) == [m \in DOMAIN defs \ {n} |-> defs[m]]

\* the value emit() returns
emitDocument ==
  IF options.rootType # "" /\ options.rootType \in DOMAIN Defs
  THEN IF isTransitivelySelfReferential(options.rootType, Defs)
       THEN [root |-> RefSchema(options.rootType), defs |-> Defs]
       ELSE [root |-> Defs[options.rootType],
             defs |-> Without(Defs, options.rootType)]
  ELSE [root |-> EmptySchema, defs |-> Defs]

\* emit()
Emit ==
  /\ ephase = "constructed"
  /\ IF \E n \in DOMAIN Defs : HasOverflow(Defs[n])
     THEN /\ ephase' = "threw"
          /\ UNCHANGED document
     ELSE /\ ephase' = "emitted"
          /\ document' = emitDocument
  /\ UNCHANGED <<declarations, options>>
  /\ UNCHANGED <<rvars, tvars, lvars>>

\* emitAll()
EmitAll ==
  /\ ephase = "constructed"
  /\ IF \E n \in DOMAIN Defs : HasOverflow(Defs[n])
     THEN /\ ephase' = "threw"
          /\ UNCHANGED document
     ELSE /\ ephase' = "emittedAll"
          /\ document' = [n \in DOMAIN Defs |-> emitDeclarationStandalone(GetDeclaration(n))]
  /\ UNCHANGED <<declarations, options>>
  /\ UNCHANGED <<rvars, tvars, lvars>>

(***************************************************************************)
(* Tokens (src/src/tokenizer.ts).  The scanned sequence ends in one eof    *)
(* token; pos and i count from 0 as in the code.                           *)
(***************************************************************************)
Token(type, value) == [type |-> type, value |-> value, line |-> 1, col |-> 1]
\* line and column of the next token: a line per newline token, a column per token
NextLine == 1 + Cardinality({i \in 1..Len(tokens) : tokens[i].type = "newline"})
NextCol == Len(tokens) + 1
EofToken == [type |-> "eof", value |-> "", line |-> NextLine, col |-> NextCol]
\* the token peek() makes up when pos is past the end
SyntheticEof == [type |-> "eof", value |-> "", line |-> 0, col |-> 0]
\* tokens[p] for p past the end
Undefined == [type |-> "undefined", value |-> "undefined", line |-> 0, col |-> 0]
\* an omitted value argument of expect / match / is
NoValue == "undefined"

Input == Append(tokens, EofToken)
TokenAt(p) == IF p < Len(Input) THEN Input[p + 1] ELSE Undefined

\* pendingJSDoc = null, and a parsed doc comment
NoDoc == [present |-> FALSE, description |-> NoDescription]
Doc(description) == [present |-> TRUE, description |-> description]

NoOutcome == [pos |-> 0, error |-> "none", token |-> Undefined, declarations |-> <<>>,
              imports |-> <<>>, pendingJSDoc |-> NoDoc, produced |-> <<>>]
Ok(s) == s.error = "none"
Throw(s, e, token) == [s EXCEPT !.error = e, !.token = token]

(***************************************************************************)
(* Parser (src/src/emitter.ts).  A parser state is the record of pos, the  *)
(* error thrown so far and the declarations pushed so far; every method    *)
(* maps a state to the state after it, and does nothing after an error.    *)
(* Of a declaration the kind and the name are kept in declarations; the    *)
(* field produced lists, in the order they were built, the declaration     *)
(* nodes (with description and enum members), the reference nodes (with    *)
(* their typeArgs) and the tuple nodes (with the rest flags of their       *)
(* elements).                                                              *)
(***************************************************************************)

RECURSIVE SkipFrom(_)
SkipFrom(p) == IF p < Len(Input) /\ Input[p + 1].type = "newline" THEN SkipFrom(p + 1) ELSE p

peek(s) == IF SkipFrom(s.pos) < Len(Input) THEN Input[SkipFrom(s.pos) + 1] ELSE SyntheticEof
skipNewlines(s) ==
  Bind(s, LAMBDA x : IF Ok(x) THEN [x EXCEPT !.pos = SkipFrom(x.pos)] ELSE x)
\* advance: the token it returns and the state it leaves
advanceToken(s) == TokenAt(SkipFrom(s.pos))
advance(s) ==
  Bind(s, LAMBDA x : IF Ok(x) THEN [x EXCEPT !.pos = SkipFrom(x.pos) + 1] ELSE x)

Matches(token, type, value) == token.type = type /\ (value = NoValue \/ token.value = value)

\* expect: reading token.type of a missing token is a TypeError
expect(s, type, value) ==
  Bind(s, LAMBDA x :
    IF ~Ok(x) THEN x
    ELSE IF advanceToken(x) = Undefined THEN Throw(advance(x), "TypeError", Undefined)
    ELSE IF ~Matches(advanceToken(x), type, value)
    THEN Throw(advance(x), "ParseError", advanceToken(x))
    ELSE advance(x))

is(s, type, value) == Matches(peek(s), type, value)
match(s, type, value) ==
  Bind(s, LAMBDA x : IF Ok(x) /\ is(x, type, value) THEN advance(x) ELSE x)

peekAhead(s, type, value) ==
  LET t == TokenAt(SkipFrom(SkipFrom(s.pos) + 1)) IN
    t # Undefined /\ Matches(t, type, value)

peekIsIndexSignature(s) ==
  LET p == SkipFrom(s.pos + 1)
      q == SkipFrom(p + 1)
  IN /\ TokenAt(p).type \in {"identifier", "primitive"}
     /\ TokenAt(q).value = ":"

lookAheadPastBracket(s) ==
  IF TokenAt(SkipFrom(s.pos + 1)) = Undefined THEN "" ELSE TokenAt(SkipFrom(s.pos + 1)).value

\* declarations.push of a finished declaration
Push(s, kind, nameToken) ==
  Bind(s, LAMBDA x :
    IF Ok(x) THEN [x EXCEPT !.declarations = Append(@, [kind |-> kind, name |-> nameToken.value])]
    ELSE x)

\* a node the parser has built
Produce(s, node) ==
  Bind(s, LAMBDA x : IF Ok(x) THEN [x EXCEPT !.produced = Append(@, node)] ELSE x)

\* mutant: the pending doc comment stays in the slot
consumeJSDocKept(s) == s

\* consumeJSDoc: the slot is emptied (the caller holds the doc it returned)
consumeJSDoc(s) ==
  Bind(s, LAMBDA x : IF Ok(x) THEN [x EXCEPT !.pendingJSDoc = NoDoc] ELSE x)

\* parseJSDocComment of a one-line comment: a line that starts with @ is a
\* tag and adds nothing to the description
TagLines == {"@internal"}
parseJSDocComment(raw) == IF raw \in TagLines THEN Doc("") ELSE Doc(raw)

\* typeArgs of a reference node: undefined, or a list of the given length
NoTypeArgs == [present |-> FALSE, length |-> 0]
TypeArgs(n) == [present |-> TRUE, length |-> n]

\* values of enum members: numbers (NaN among them) and strings
NumberValue(n) == [t |-> "number", n |-> n, s |-> ""]
StringValue(v) == [t |-> "string", n |-> 0, s |-> v]
NaN == [t |-> "NaN", n |-> 0, s |-> ""]
\* Number(token.value) of a number token: readNumber takes digits and dots
NumberLiteral(value) ==
  CASE value = "0" -> NumberValue(0)
    [] value = "1" -> NumberValue(1)
    [] value = "2" -> NumberValue(2)
    [] value = "-1" -> NumberValue(0 - 1)
    [] OTHER -> NaN
\* mutant: the counter stays where it is
PlusNone(v) == v

\* (memberValue as number) + 1 and autoIndex++
PlusOne(v) == IF v.t = "NaN" THEN NaN ELSE NumberValue(v.n + 1)

RECURSIVE parseObjectBody(_)
RECURSIVE objectMembers(_)
RECURSIVE parseIndexSignature(_)
RECURSIVE parseType(_)
RECURSIVE parseUnion(_)
RECURSIVE unionMembers(_)
RECURSIVE parseIntersection(_)
RECURSIVE intersectionMembers(_)
RECURSIVE parsePostfix(_)
RECURSIVE arraySuffixes(_)
RECURSIVE parsePrimary(_)
RECURSIVE parseTuple(_)
RECURSIVE tupleElements(_)
RECURSIVE parseTypeReference(_)
RECURSIVE typeArguments(_)

parseType(s) == parseUnion(s)

parseUnion(s) ==
  Bind(parseIntersection(match(s, "punctuation", "|")), LAMBDA left :
    IF Ok(left) /\ is(left, "punctuation", "|") THEN unionMembers(left) ELSE left)

\* while (this.match("punctuation", "|")) members.push(this.parseIntersection())
unionMembers(s) ==
  Bind(s, LAMBDA x :
    IF Ok(x) /\ is(x, "punctuation", "|") THEN unionMembers(parseIntersection(advance(x)))
    ELSE x)

parseIntersection(s) ==
  Bind(parsePostfix(match(s, "punctuation", "&")), LAMBDA left :
    IF Ok(left) /\ is(left, "punctuation", "&") THEN intersectionMembers(left) ELSE left)

\* while (this.match("punctuation", "&")) members.push(this.parsePostfix())
intersectionMembers(s) ==
  Bind(s, LAMBDA x :
    IF Ok(x) /\ is(x, "punctuation", "&") THEN intersectionMembers(parsePostfix(advance(x)))
    ELSE x)

parsePostfix(s) == arraySuffixes(parsePrimary(s))

\* while (this.is("punctuation", "[")): T[] is consumed, anything else ends the loop
arraySuffixes(s) ==
  Bind(s, LAMBDA x :
    IF Ok(x) /\ is(x, "punctuation", "[") /\ lookAheadPastBracket(x) = "]"
    THEN arraySuffixes(advance(advance(x)))
    ELSE x)

parsePrimary(s) ==
  Bind(s, LAMBDA x :
    IF ~Ok(x) THEN x
    ELSE IF peek(x).type \in {"primitive", "string", "number"} THEN advance(x)
    ELSE IF is(x, "punctuation", "(")
    THEN expect(parseType(advance(x)), "punctuation", ")")
    ELSE IF is(x, "punctuation", "[") THEN parseTuple(x)
    ELSE IF is(x, "punctuation", "{") THEN parseObjectBody(x)
    ELSE IF is(x, "keyword", "readonly") THEN parsePostfix(advance(x))
    ELSE IF peek(x).type = "identifier" THEN parseTypeReference(x)
    ELSE Throw(x, "ParseError", peek(x)))

parseTuple(s) ==
  Bind(tupleElements(<<expect(s, "punctuation", "["), <<>>>>), LAMBDA se :
    Produce(expect(se[1], "punctuation", "]"), [kind |-> "tuple", elements |-> se[2]]))

\* the loop of parseTuple over the elements, on the pair of the state and the
\* elements pushed so far; of an element its rest flag is kept
tupleElements(se) ==
  Bind(se, LAMBDA x :
    IF ~Ok(x[1]) \/ is(x[1], "punctuation", "]") \/ is(x[1], "eof", NoValue) THEN x
    ELSE
    Bind(IF is(x[1], "punctuation", ".")
         THEN expect(expect(advance(x[1]), "punctuation", "."), "punctuation", ".")
         ELSE x[1], LAMBDA s1 :
    Bind(match(parseType(IF /\ Ok(s1) /\ is(s1, "identifier", NoValue)
                            /\ peekAhead(s1, "punctuation", ":")
                         THEN advance(advance(s1))
                         ELSE s1), "punctuation", "?"), LAMBDA s2 :
    IF ~Ok(s2) THEN <<s2, x[2]>>
    ELSE IF is(s2, "punctuation", ",")
    THEN tupleElements(<<advance(s2), Append(x[2], [rest |-> is(x[1], "punctuation", ".")])>>)
    ELSE <<s2, Append(x[2], [rest |-> is(x[1], "punctuation", ".")])>>)))

\* the end of parseTypeReference: Array<T>, Record<K, V> and Promise<T> are
\* not reference nodes; any other name is one, with typeArgs if it has them
referenceNode(s, name, typeArgs) ==
  IF typeArgs.present /\ (\/ name \in {"Array", "Promise"} /\ typeArgs.length = 1
                          \/ name = "Record" /\ typeArgs.length = 2)
  THEN s
  ELSE Produce(s, [kind |-> "reference", name |-> name, typeArgs |-> typeArgs])

parseTypeReference(s) ==
  Bind(advance(s), LAMBDA s1 :
    IF is(s1, "punctuation", "<")
    THEN Bind(typeArguments(<<advance(s1), 0>>), LAMBDA sn :
           referenceNode(expect(sn[1], "punctuation", ">"), advanceToken(s).value,
                         TypeArgs(sn[2])))
    ELSE referenceNode(s1, advanceToken(s).value, NoTypeArgs))

\* the loop of parseTypeReference over the type arguments, on the pair of the
\* state and the number of arguments pushed so far
typeArguments(sn) ==
  Bind(sn, LAMBDA x :
    IF ~Ok(x[1]) \/ is(x[1], "punctuation", ">") \/ is(x[1], "eof", NoValue) THEN x
    ELSE Bind(parseType(x[1]), LAMBDA s1 :
           IF ~Ok(s1) THEN <<s1, x[2]>>
           ELSE IF is(s1, "punctuation", ",") THEN typeArguments(<<advance(s1), x[2] + 1>>)
           ELSE <<s1, x[2] + 1>>))

parseIndexSignature(s) ==
  parseType(expect(expect(parseType(expect(advance(expect(s, "punctuation", "[")),
                                           "punctuation", ":")),
                          "punctuation", "]"),
                   "punctuation", ":"))

parseObjectBody(s) ==
  expect(objectMembers(expect(s, "punctuation", "{")), "punctuation", "}")

\* const propName = this.advance().value
propertyName(s) ==
  Bind(s, LAMBDA x :
    IF ~Ok(x) THEN x
    ELSE IF advanceToken(x) = Undefined THEN Throw(advance(x), "TypeError", Undefined)
    ELSE advance(x))

\* the loop of parseObjectBody over the members
objectMembers(s) ==
  Bind(s, LAMBDA x :
    IF ~Ok(x) \/ is(x, "punctuation", "}") \/ is(x, "eof", NoValue) THEN x
    ELSE
    Bind(skipNewlines(x), LAMBDA s1 :
    Bind(skipNewlines(IF is(s1, "jsdoc", NoValue) THEN advance(s1) ELSE s1), LAMBDA s2 :
    IF is(s2, "punctuation", "}") THEN s2
    ELSE IF is(s2, "punctuation", "[") /\ peekIsIndexSignature(s2)
    THEN objectMembers(match(match(parseIndexSignature(s2), "punctuation", ";"),
                             "punctuation", ","))
    ELSE objectMembers(
           match(match(parseType(expect(match(propertyName(match(s2, "keyword", "readonly")),
                                              "punctuation", "?"),
                                        "punctuation", ":")),
                       "punctuation", ";"),
                 "punctuation", ","))
    )))

RECURSIVE extendsNames(_)
\* while (this.match("punctuation", ",")) extendsNames.push(this.expect("identifier").value)
extendsNames(s) ==
  Bind(s, LAMBDA x :
    IF Ok(x) /\ is(x, "punctuation", ",")
    THEN extendsNames(expect(advance(x), "identifier", NoValue))
    ELSE x)

\* a declaration node: the entry of declarations and the node with its
\* description (jsdoc?.description)
declarationNode(s, kind, nameToken, jsdoc) ==
  Produce(Push(s, kind, nameToken),
          [kind |-> kind, name |-> nameToken.value, description |-> jsdoc.description])

parseInterface(s) ==
  Bind(expect(consumeJSDoc(s), "keyword", "interface"), LAMBDA s1 :
  Bind(expect(s1, "identifier", NoValue), LAMBDA s2 :
    declarationNode(parseObjectBody(IF Ok(s2) /\ is(s2, "keyword", "extends")
                                    THEN extendsNames(expect(advance(s2), "identifier", NoValue))
                                    ELSE s2),
                    "interface", advanceToken(s1), s.pendingJSDoc)))

RECURSIVE skipGenericParams(_)
\* while (depth > 0 && !this.is("eof")), on the pair of the state and depth
skipGenericParams(sd) ==
  Bind(sd, LAMBDA x :
    IF x[2] > 0 /\ ~is(x[1], "eof", NoValue)
    THEN skipGenericParams(<<advance(x[1]),
                             x[2] + (IF is(x[1], "punctuation", "<") THEN 1 ELSE 0)
                                  - (IF is(x[1], "punctuation", ">") THEN 1 ELSE 0)>>)
    ELSE x[1])

parseTypeAlias(s) ==
  Bind(expect(consumeJSDoc(s), "keyword", "type"), LAMBDA s1 :
  Bind(expect(s1, "identifier", NoValue), LAMBDA s2 :
    declarationNode(match(parseType(expect(IF Ok(s2) /\ is(s2, "punctuation", "<")
                                           THEN skipGenericParams(<<advance(s2), 1>>)
                                           ELSE s2,
                                           "punctuation", "=")),
                          "punctuation", ";"),
                    "type_alias", advanceToken(s1), s.pendingJSDoc)))

RECURSIVE enumMembers(_)
\* one member of an enum, after its name: the state after the initializer,
\* memberValue and the new autoIndex
memberValue(s2, autoIndex) ==
  IF Ok(s2) /\ is(s2, "punctuation", "=")
  THEN Bind(advance(s2), LAMBDA s3 :
         IF is(s3, "string", NoValue)
         THEN <<advance(s3), StringValue(advanceToken(s3).value), autoIndex>>
         ELSE IF is(s3, "number", NoValue)
         THEN <<advance(s3), NumberLiteral(advanceToken(s3).value),
                PlusOne(NumberLiteral(advanceToken(s3).value))>>
         ELSE <<advance(s3), autoIndex, autoIndex>>)
  ELSE <<s2, autoIndex, PlusOne(autoIndex)>>

\* the loop of parseEnum over the members, on the state, the members pushed so
\* far and autoIndex
enumMembers(sma) ==
  Bind(sma, LAMBDA x :
    IF ~Ok(x[1]) \/ is(x[1], "punctuation", "}") \/ is(x[1], "eof", NoValue) THEN x
    ELSE
    Bind(skipNewlines(x[1]), LAMBDA s1 :
    IF is(s1, "jsdoc", NoValue) THEN enumMembers(<<advance(s1), x[2], x[3]>>)
    ELSE IF is(s1, "punctuation", "}") THEN <<s1, x[2], x[3]>>
    ELSE Bind(memberValue(expect(s1, "identifier", NoValue), x[3]), LAMBDA m :
           IF ~Ok(m[1]) THEN <<m[1], x[2], x[3]>>
           ELSE enumMembers(<<match(m[1], "punctuation", ","),
                              Append(x[2], [name |-> advanceToken(s1).value, value |-> m[2]]),
                              m[3]>>))
    ))

parseEnum(s) ==
  Bind(expect(match(consumeJSDoc(s), "keyword", "const"), "keyword", "enum"), LAMBDA s1 :
  Bind(enumMembers(<<expect(expect(s1, "identifier", NoValue), "punctuation", "{"),
                     <<>>, NumberValue(0)>>), LAMBDA r :
    Produce(Push(expect(r[1], "punctuation", "}"), "enum", advanceToken(s1)),
            [kind |-> "enum", name |-> advanceToken(s1).value, members |-> r[2],
             description |-> s.pendingJSDoc.description])))

RECURSIVE parseDeclarations(_)
\* the loop of parse()
parseDeclarations(s) ==
  Bind(s, LAMBDA x :
    IF ~Ok(x) \/ is(x, "eof", NoValue) THEN x
    ELSE
    Bind(skipNewlines(x), LAMBDA s1 :
    IF is(s1, "jsdoc", NoValue)
    THEN parseDeclarations([advance(s1) EXCEPT
                              !.pendingJSDoc = parseJSDocComment(advanceToken(s1).value)])
    ELSE
    Bind(match(s1, "keyword", "export"), LAMBDA s2 :
    IF is(s2, "keyword", "interface") THEN parseDeclarations(parseInterface(s2))
    ELSE IF is(s2, "keyword", "type") THEN parseDeclarations(parseTypeAlias(s2))
    ELSE IF \/ is(s2, "keyword", "enum")
            \/ is(s2, "keyword", "const") /\ peekAhead(s2, "keyword", "enum")
    THEN parseDeclarations(parseEnum(s2))
    ELSE parseDeclarations(advance(s2))
    )))

parse == parseDeclarations(NoOutcome)

(***************************************************************************)
(* extractImports (src/src/import-parser.ts).  Its state is the index i    *)
(* (the field pos), the error thrown so far and the module paths pushed so *)
(* far.                                                                    *)
(***************************************************************************)
ipeek(s) == TokenAt(s.pos)
iadvance(s) == Bind(s, LAMBDA x : IF Ok(x) THEN [x EXCEPT !.pos = @ + 1] ELSE x)
IsToken(t, type, value) == t.type = type /\ t.value = value

iexpect(s, type, value) ==
  Bind(s, LAMBDA x :
    IF ~Ok(x) THEN x
    ELSE IF ipeek(x) = Undefined \/ ~Matches(ipeek(x), type, value)
    THEN Throw(iadvance(x), "Error", ipeek(x))
    ELSE iadvance(x))

RECURSIVE iskipNewlines(_)
iskipNewlines(s) ==
  Bind(s, LAMBDA x : IF Ok(x) /\ ipeek(x).type = "newline" THEN iskipNewlines(iadvance(x)) ELSE x)

\* if (peek() is type value) { advance(); skipNewlines(); }
iskipOptional(s, type, value) ==
  Bind(s, LAMBDA x :
    IF Ok(x) /\ IsToken(ipeek(x), type, value) THEN iskipNewlines(iadvance(x)) ELSE x)

\* if (peek() is ";") advance()
iskipSemicolon(s) ==
  Bind(s, LAMBDA x : IF Ok(x) /\ IsToken(ipeek(x), "punctuation", ";") THEN iadvance(x) ELSE x)

\* pathToken = expect("string"); imports.push(...)
pushImportPath(s) ==
  Bind(s, LAMBDA x :
    Bind(iexpect(x, "string", NoValue), LAMBDA s1 :
      IF Ok(s1) THEN [s1 EXCEPT !.imports = Append(@, ipeek(x).value)] ELSE s1))

\* { X as Y , }: one pass of the loops over imported and exported names
importedName(s) ==
  Bind(iskipNewlines(iexpect(iskipNewlines(s), "identifier", NoValue)), LAMBDA s1 :
    iskipOptional(IF Ok(s1) /\ IsToken(ipeek(s1), "keyword", "as")
                  THEN iskipNewlines(iexpect(iskipNewlines(iadvance(s1)), "identifier", NoValue))
                  ELSE s1,
                  "punctuation", ","))

RECURSIVE importedNames(_)
\* while (peek() is not "}"), in an import statement
importedNames(s) ==
  Bind(s, LAMBDA x :
    IF ~Ok(x) \/ IsToken(ipeek(x), "punctuation", "}") THEN x
    ELSE importedNames(importedName(x)))

RECURSIVE exportedNames(_)
\* while (peek() is not "}"), in a re-export; it ends at eof
exportedNames(s) ==
  Bind(s, LAMBDA x :
    IF ~Ok(x) \/ IsToken(ipeek(x), "punctuation", "}") THEN x
    ELSE IF ipeek(iskipNewlines(x)).type = "eof" THEN iskipNewlines(x)
    ELSE exportedNames(importedName(x)))

\* the clause between import and from
importClause(s) ==
  Bind(s, LAMBDA x :
    IF IsToken(ipeek(x), "punctuation", "*")
    THEN iexpect(iskipNewlines(iexpect(iskipNewlines(iadvance(x)), "keyword", "as")),
                 "identifier", NoValue)
    ELSE IF IsToken(ipeek(x), "punctuation", "{")
    THEN iexpect(importedNames(iskipNewlines(iadvance(x))), "punctuation", "}")
    ELSE IF ipeek(x).type = "identifier" THEN iexpect(x, "identifier", NoValue)
    ELSE x)

\* the branch of the main loop for the import keyword
importStatement(s) ==
  Bind(iskipNewlines(importClause(iskipOptional(iskipNewlines(iadvance(s)),
                                                "keyword", "type"))), LAMBDA s1 :
    iskipSemicolon(iskipNewlines(
      IF Ok(s1) /\ IsToken(ipeek(s1), "keyword", "from")
      THEN pushImportPath(iskipNewlines(iexpect(s1, "keyword", "from")))
      ELSE s1)))

\* after from of a re-export: the path, then an optional ";"
fromClause(s) == iskipSemicolon(iskipNewlines(pushImportPath(iskipNewlines(s))))

\* the branch of the main loop for the export keyword
reExport(s) ==
  Bind(iskipOptional(iskipNewlines(iadvance(s)), "keyword", "type"), LAMBDA s1 :
    IF IsToken(ipeek(s1), "punctuation", "*")
    THEN Bind(iskipNewlines(iadvance(s1)), LAMBDA s2 :
           IF IsToken(ipeek(s2), "keyword", "from") THEN fromClause(iadvance(s2)) ELSE s2)
    ELSE IF IsToken(ipeek(s1), "punctuation", "{")
    THEN Bind(iskipNewlines(iskipOptional(exportedNames(iskipNewlines(iadvance(s1))),
                                          "punctuation", "}")), LAMBDA s3 :
           IF Ok(s3) /\ IsToken(ipeek(s3), "keyword", "from")
           THEN fromClause(iadvance(s3))
           ELSE s3)
    ELSE s1)

RECURSIVE importLoop(_)
\* while (i < tokens.length)
importLoop(s) ==
  Bind(s, LAMBDA x :
    IF ~Ok(x) \/ x.pos >= Len(Input) \/ ipeek(x).type = "eof" THEN x
    ELSE IF IsToken(ipeek(x), "keyword", "import") THEN importLoop(importStatement(x))
    ELSE IF IsToken(ipeek(x), "keyword", "export") THEN importLoop(reExport(x))
    ELSE importLoop(iadvance(x)))

extractImports == importLoop(NoOutcome)

TIdle ==
  /\ tokens = <<>>
  /\ tphase = "idle"
  /\ outcome = NoOutcome
  /\ statements = <<>>

TInit ==
  /\ tokens = <<>>
  /\ tphase = "scanning"
  /\ outcome = NoOutcome
  /\ statements = <<>>

\* tokenize(): one more token of the source text
Tokenize(alphabet) ==
  /\ tphase = "scanning"
  /\ Len(tokens) < MaxTokens
  /\ \E t \in alphabet :
        tokens' = Append(tokens, [t EXCEPT !.line = NextLine, !.col = NextCol])
  /\ UNCHANGED <<tphase, outcome, statements>>
  /\ UNCHANGED <<rvars, evars, lvars>>

\* the tokens of one more whole statement of the source text, and a newline
WriteStatement(choices) ==
  /\ tphase = "scanning"
  /\ Len(statements) < MaxStatements
  /\ \E st \in choices :
        /\ statements' = Append(statements, st)
        /\ tokens' = tokens \o
             [k \in 1..Len(st.text) + 1 |->
                [(IF k <= Len(st.text) THEN st.text[k] ELSE Token("newline", "\n"))
                   EXCEPT !.line = Len(statements) + 1, !.col = k]]
  /\ UNCHANGED <<tphase, outcome>>
  /\ UNCHANGED <<rvars, evars, lvars>>

\* new Parser(tokens).parse() on the scanned tokens and their eof
Parse ==
  /\ tphase = "scanning"
  /\ outcome' = parse
  /\ tphase' = IF Ok(outcome') THEN "returned" ELSE "threw"
  /\ UNCHANGED <<tokens, statements>>
  /\ UNCHANGED <<rvars, evars, lvars>>

\* extractImports(tokens) on the scanned tokens and their eof
ExtractImports ==
  /\ tphase = "scanning"
  /\ outcome' = extractImports
  /\ tphase' = IF Ok(outcome') THEN "returned" ELSE "threw"
  /\ UNCHANGED <<tokens, statements>>
  /\ UNCHANGED <<rvars, evars, lvars>>

(***************************************************************************)
(* tokenize (src/src/tokenizer.ts).  The source text is a sequence of      *)
(* characters; a cursor is the record of i, line and col together with the *)
(* value a read function has collected so far.  Values are sequences of    *)
(* characters.  source[i] past the end is undefined, which `+=` appends as *)
(* the text "undefined".                                                   *)
(***************************************************************************)
\* the characters a string of the model cannot hold, by name
Backtick == "backtick"
Apostrophe == "apostrophe"

Whitespace == {" ", "\t", "\r"}
Digits == {"0", "1", "2", "3", "4", "5", "6", "7", "8", "9"}
\* the letters of the modelled texts, of /[a-zA-Z_$]/
Letters == {"a", "s", "_", "$"}
PUNCTUATION ==
  {"{", "}", "(", ")", "[", "]", ":", ";", ",", "?", "|", "&", "=", "<", ">", ".", "*"}
\* the words of KEYWORDS and PRIMITIVES that the modelled letters spell
KEYWORDS == {<<"a", "s">>}
PRIMITIVES == {}

Cursor == [i |-> index, line |-> lineNo, col |-> colNo, value |-> <<>>]

\* peek(offset)
cpeek(c, offset) == IF c.i + offset < Len(source) THEN source[c.i + offset + 1] ELSE ""

\* source[i], as advance() reads it
charAt(c) == IF c.i < Len(source) THEN source[c.i + 1] ELSE "undefined"

\* advance(), its result dropped
cadvance(c) ==
  Bind(c, LAMBDA x :
    [x EXCEPT !.i = @ + 1,
              !.line = IF charAt(x) = "\n" THEN @ + 1 ELSE @,
              !.col = IF charAt(x) = "\n" THEN 1 ELSE @ + 1])

\* value += advance()
ctake(c) == Bind(c, LAMBDA x : [cadvance(x) EXCEPT !.value = Append(@, charAt(x))])

RECURSIVE skipWhitespace(_)
skipWhitespace(c) ==
  Bind(c, LAMBDA x :
    IF x.i < Len(source) /\ cpeek(x, 0) \in Whitespace THEN skipWhitespace(cadvance(x)) ELSE x)

RECURSIVE stringBody(_, _)
\* the loop of readString
stringBody(c, quote) ==
  Bind(c, LAMBDA x :
    IF x.i < Len(source) /\ cpeek(x, 0) # quote
    THEN IF cpeek(x, 0) = "\\" THEN stringBody(ctake(cadvance(x)), quote)
         ELSE stringBody(ctake(x), quote)
    ELSE x)

readString(c, quote) ==
  Bind(stringBody(cadvance(c), quote), LAMBDA x :
    IF x.i < Len(source) THEN cadvance(x) ELSE x)

RECURSIVE jsdocBody(_)
\* the loop of readJSDoc
jsdocBody(c) ==
  Bind(c, LAMBDA x :
    IF x.i < Len(source)
    THEN IF cpeek(x, 0) = "*" /\ cpeek(x, 1) = "/" THEN cadvance(cadvance(x))
         ELSE jsdocBody(ctake(x))
    ELSE x)

RECURSIVE trimStart(_)
trimStart(v) ==
  IF v # <<>> /\ Head(v) \in Whitespace \cup {"\n"} THEN trimStart(Tail(v)) ELSE v
RECURSIVE trimEnd(_)
trimEnd(v) ==
  IF v # <<>> /\ v[Len(v)] \in Whitespace \cup {"\n"} THEN trimEnd(SubSeq(v, 1, Len(v) - 1))
  ELSE v
\* String.prototype.trim
trim(v) == trimEnd(trimStart(v))

readJSDoc(c) ==
  Bind(jsdocBody(cadvance(cadvance(cadvance(c)))), LAMBDA x : [x EXCEPT !.value = trim(@)])

RECURSIVE readLineComment(_)
readLineComment(c) ==
  Bind(c, LAMBDA x :
    IF x.i < Len(source) /\ cpeek(x, 0) # "\n" THEN readLineComment(cadvance(x)) ELSE x)

RECURSIVE blockCommentBody(_)
\* the loop of readBlockComment
blockCommentBody(c) ==
  Bind(c, LAMBDA x :
    IF x.i < Len(source)
    THEN IF cpeek(x, 0) = "*" /\ cpeek(x, 1) = "/" THEN cadvance(cadvance(x))
         ELSE blockCommentBody(cadvance(x))
    ELSE x)

readBlockComment(c) == blockCommentBody(cadvance(cadvance(c)))

RECURSIVE readWord(_)
readWord(c) ==
  Bind(c, LAMBDA x :
    IF x.i < Len(source) /\ cpeek(x, 0) \in Letters \cup Digits THEN readWord(ctake(x)) ELSE x)

RECURSIVE numberBody(_)
\* the loop of readNumber
numberBody(c) ==
  Bind(c, LAMBDA x :
    IF x.i < Len(source) /\ cpeek(x, 0) \in Digits \cup {"."} THEN numberBody(ctake(x)) ELSE x)

readNumber(c) ==
  Bind(c, LAMBDA x : numberBody(IF cpeek(x, 0) = "-" THEN ctake(x) ELSE x))

RECURSIVE templateBody(_)
\* the loop of the template literal branch
templateBody(c) ==
  Bind(c, LAMBDA x :
    IF x.i < Len(source) /\ cpeek(x, 0) # Backtick THEN templateBody(ctake(x)) ELSE x)

readTemplate(c) ==
  Bind(templateBody(cadvance(c)), LAMBDA x : IF x.i < Len(source) THEN cadvance(x) ELSE x)

wordType(word) ==
  IF word \in PRIMITIVES THEN "primitive"
  ELSE IF word \in KEYWORDS THEN "keyword"
  ELSE "identifier"

\* the outcome of one pass of the main loop: the cursor it leaves, whether it
\* pushes a token, and the token's type
Pushed(c, type) == [cursor |-> c, push |-> TRUE, type |-> type]
Skipped(c) == [cursor |-> c, push |-> FALSE, type |-> ""]

\* one pass of the main loop, after skipWhitespace, at a character
scanToken(c) ==
  LET ch == cpeek(c, 0) IN
    IF ch = "\n" THEN Pushed([cadvance(c) EXCEPT !.value = <<"\n">>], "newline")
    ELSE IF ch = "/" /\ cpeek(c, 1) = "*" /\ cpeek(c, 2) = "*" /\ cpeek(c, 3) # "/"
    THEN Pushed(readJSDoc(c), "jsdoc")
    ELSE IF ch = "/" /\ cpeek(c, 1) = "*" THEN Skipped(readBlockComment(c))
    ELSE IF ch = "/" /\ cpeek(c, 1) = "/" THEN Skipped(readLineComment(c))
    ELSE IF ch = "\"" \/ ch = Apostrophe THEN Pushed(readString(c, ch), "string")
    ELSE IF ch = Backtick THEN Pushed(readTemplate(c), "string")
    ELSE IF ch \in Digits \/ (ch = "-" /\ cpeek(c, 1) \in Digits)
    THEN Pushed(readNumber(c), "number")
    ELSE IF ch \in Letters THEN Pushed(readWord(c), wordType(readWord(c).value))
    ELSE IF ch \in PUNCTUATION
    THEN Pushed([cadvance(c) EXCEPT !.value = <<ch>>], "punctuation")
    ELSE Skipped(cadvance(c))

LIdle ==
  /\ source = <<>>
  /\ index = 0
  /\ lineNo = 1
  /\ colNo = 1
  /\ scanned = <<>>
  /\ lphase = "idle"

\* tokenize(source), before its loop, for a source text still to be chosen
LInit ==
  /\ source = <<>>
  /\ index = 0
  /\ lineNo = 1
  /\ colNo = 1
  /\ scanned = <<>>
  /\ lphase = "typing"

\* the caller's source text, one character at a time
Type(alphabet) ==
  /\ lphase = "typing"
  /\ Len(source) < MaxChars
  /\ \E ch \in alphabet : source' = Append(source, ch)
  /\ UNCHANGED <<index, lineNo, colNo, scanned, lphase>>
  /\ UNCHANGED <<rvars, evars, tvars>>

\* one pass of the main loop of tokenize
ScanToken ==
  /\ lphase \in {"typing", "scanning"}
  /\ index < Len(source)
  /\ LET start == skipWhitespace(Cursor) IN
       IF start.i >= Len(source)
       THEN /\ index' = start.i
            /\ lineNo' = start.line
            /\ colNo' = start.col
            /\ UNCHANGED scanned
       ELSE LET r == scanToken(start) IN
              /\ index' = r.cursor.i
              /\ lineNo' = r.cursor.line
              /\ colNo' = r.cursor.col
              /\ scanned' = IF r.push
                            THEN Append(scanned, [type |-> r.type, value |-> r.cursor.value,
                                                  line |-> start.line, col |-> start.col])
                            ELSE scanned
  /\ lphase' = "scanning"
  /\ UNCHANGED source
  /\ UNCHANGED <<rvars, evars, tvars>>

\* tokenize returning its tokens without the closing eof token
ReturnTokensNoEof ==
  /\ lphase \in {"typing", "scanning"}
  /\ index >= Len(source)
  /\ lphase' = "returned"
  /\ UNCHANGED <<source, index, lineNo, colNo, scanned>>
  /\ UNCHANGED <<rvars, evars, tvars>>

\* after the loop: tokens.push(eof); return tokens
ReturnTokens ==
  /\ lphase \in {"typing", "scanning"}
  /\ index >= Len(source)
  /\ scanned' = Append(scanned, [type |-> "eof", value |-> <<>>, line |-> lineNo, col |-> colNo])
  /\ lphase' = "returned"
  /\ UNCHANGED <<source, index, lineNo, colNo>>
  /\ UNCHANGED <<rvars, evars, tvars>>

(***************************************************************************)
(* Specifications.                                                         *)
(***************************************************************************)
Room == MaxEdges - EdgesIn(disk, NumFiles)

\* Import graphs of every shape; no declarations
GraphContents ==
  BadContents \cup OkContents(SeqsUpTo(ModulePaths, MaxImports), {<<>>}, Room)

\* Declaration lists of every shape; imports "./f" of existing and missing files
MergeImports == {[rel |-> TRUE, file |-> f, ext |-> FALSE] : f \in Files \cup {NoFile}}
MergeContents ==
  OkContents(SeqsUpTo(MergeImports, MaxImports), SeqsUpTo(Names, MaxDecls), Room)

Traverse ==
  \/ EnterVisited
  \/ EnterUnresolvable
  \/ ImportStep
  \/ Return
  \/ Merge

Init == RInit(Modes, {"unset"}) /\ EIdle /\ TIdle /\ LIdle

Next ==
  \/ ResolveFromEntry(PathKeys)
  \/ Traverse
  \/ EnterRead(GraphContents)

Spec == Init /\ [][Next]_vars

FairSpec == Spec /\ WF_vars(Next)

MergeInit == RInit({"local"}, Policies) /\ EIdle /\ TIdle /\ LIdle

MergeEntries == {PathKey(1, TRUE), MissingPath}

MergeNext ==
  \/ ResolveFromEntry(MergeEntries)
  \/ Traverse
  \/ EnterRead(MergeContents)

MergeSpec == MergeInit /\ [][MergeNext]_vars

\* the resolver is not used
RIdle == RInit({"none"}, {"unset"})

\* Declarations whose properties refer to the declared types
PropertyTypes ==
  {Primitive, Reference("Date")}
    \cup UNION {{Reference(n), ArrayOf(Reference(n)), Generic("Partial", <<Reference(n)>>),
                 Generic("Pick", <<Reference(n), LiteralString(PropName[1])>>)} : n \in TypeNames}
Properties(types) == [i \in 1..Len(types) |-> Property(PropName[i], types[i], NoTag)]
RootDecls ==
  {Interface(n, Properties(types), NoIndex, NoTag) :
      n \in TypeNames, types \in SeqsUpTo(PropertyTypes, MaxProps)}
RootOptions == {[DefaultOptions EXCEPT !.rootType = r] : r \in TypeNames \cup {""}}

EmitInit == RIdle /\ EInit(RootOptions) /\ TIdle /\ LIdle
EmitNext ==
  \/ Declare(RootDecls)
  \/ Emit
EmitSpec == EmitInit /\ [][EmitNext]_vars

\* Object types with and without an index signature and a tag, at the three
\* places a tag can be written
TagValues == {NoTag, "true", "false", "True", "FALSE"}
IndexChoices == {NoIndex, IndexSignature(Primitive)}
ObjectDecls ==
  UNION {{Interface(n, <<>>, idx, tag),
          TypeAlias(n, ObjectType(<<>>, idx), tag),
          Interface(n, <<Property(PropName[1], ObjectType(<<>>, idx), tag)>>, NoIndex, NoTag)} :
            n \in TypeNames, idx \in IndexChoices, tag \in TagValues}
ObjectOptions ==
  {[rootType |-> "", strictObjects |-> s, additionalProperties |-> a, includeJSDoc |-> j] :
      s \in BOOLEAN, a \in {"undefined", "true", "false"}, j \in BOOLEAN}

ObjectInit == RIdle /\ EInit(ObjectOptions) /\ TIdle /\ LIdle
ObjectNext ==
  \/ Declare(ObjectDecls)
  \/ Emit
ObjectSpec == ObjectInit /\ [][ObjectNext]_vars

ParserTokens ==
  {Token("keyword", "interface"), Token("keyword", "type"), Token("keyword", "enum"),
   Token("keyword", "readonly"), Token("identifier", "x"), Token("primitive", "string"),
   Token("punctuation", "{"), Token("punctuation", "}"), Token("punctuation", ":"),
   Token("punctuation", "="), Token("punctuation", "["), Token("punctuation", "]"),
   Token("jsdoc", "doc"), Token("newline", "\n")}

ParseInit == RIdle /\ EIdle /\ TInit /\ LIdle
ParseNext ==
  \/ Tokenize(ParserTokens)
  \/ Parse
ParseSpec == ParseInit /\ [][ParseNext]_vars

ImportTokens ==
  {Token("keyword", "import"), Token("keyword", "export"), Token("keyword", "type"),
   Token("keyword", "from"), Token("keyword", "as"), Token("identifier", "x"),
   Token("string", "./m"), Token("punctuation", "*"), Token("punctuation", "{"),
   Token("punctuation", "}"), Token("punctuation", ","), Token("punctuation", ";"),
   Token("newline", "\n")}

ImportInit == RIdle /\ EIdle /\ TInit /\ LIdle
ImportNext ==
  \/ Tokenize(ImportTokens)
  \/ ExtractImports
ImportSpec == ImportInit /\ [][ImportNext]_vars

(***************************************************************************)
(* Properties of the module resolver.                                      *)
(***************************************************************************)
Loaded == {modules[i].filePath : i \in 1..Len(modules)}
Finished == phase \in {"done", "failed"}
ModuleNames(m) == {m.declarations[d].name : d \in 1..Len(m.declarations)}
Collision ==
  \E i, j \in 1..Len(modules) :
     i # j /\ ModuleNames(modules[i]) \cap ModuleNames(modules[j]) # {}
FollowedTarget(m, k) == resolveImportPath(m.imports[k], m.filePath, followImports)

\* C1: in one run every file reachable from the entry file is read, tokenized
\* and parsed exactly once; a file that was visited is never read again.
C1_EachFileReadOnce ==
  /\ \A f \in Files : reads[f] <= 1
  /\ phase = "done" =>
       \A i \in 1..Len(modules) : \A k \in 1..Len(modules[i].imports) :
          FollowedTarget(modules[i], k) # Null =>
             resolveExtensions(FollowedTarget(modules[i], k)) \in Loaded

\* C2: for every finite file set and import graph (self-imports, mutual
\* imports, longer cycles) resolving terminates: it returns a declaration
\* list or fails with an error.
C2_Terminates == <>Finished

ImportsFile(m, f) ==
  \E k \in 1..Len(m.imports) :
     FollowedTarget(m, k) # Null /\ resolveExtensions(FollowedTarget(m, k)) = f

C2_CycleResolved ==
  /\ phase = "done"
  /\ \E i, j \in 1..Len(modules) :
        /\ i # j
        /\ ImportsFile(modules[i], modules[j].filePath)
        /\ ImportsFile(modules[j], modules[i].filePath)

TraversalErrors == {"CannotResolve", "ReadError", "ParseError"}
Declares(f, n) ==
  \E i \in 1..Len(modules) : modules[i].filePath = f /\ n \in ModuleNames(modules[i])

\* C3: when two different files of one conversion declare the same top-level
\* name and the collision policy is error or unset, the conversion fails, no
\* declaration list is returned, and the error raised by the merge names the
\* declaration and two different files that both declare it.
C3_DuplicateFails ==
  (Finished /\ Collision /\ onDuplicate \in {"error", "unset"}) =>
     /\ phase = "failed"
     /\ result = <<>>
     /\ error.kind \notin TraversalErrors =>
          /\ error.kind = "Duplicate"
          /\ error.first # error.second
          /\ Declares(error.first, error.name)
          /\ Declares(error.second, error.name)

C3_DuplicateReported ==
  /\ phase = "failed" /\ Collision /\ onDuplicate = "unset"
  /\ error.kind = "Duplicate"

\* C4: every declaration list the resolver returns holds at most one
\* declaration per name, under any collision policy.
C4_UniqueNames ==
  phase = "done" =>
     \A i, j \in 1..Len(result) : i # j => result[i].name # result[j].name

\* C4 as amended: in every returned declaration list all the declarations
\* of one name come from one file.
C4_OneFilePerName ==
  phase = "done" =>
     \A i, j \in 1..Len(result) :
        result[i].name = result[j].name => result[i].file = result[j].file

C4_DuplicateDropped ==
  /\ phase = "done" /\ Collision
  /\ Len(result) > 0

FirstModuleDeclaring(n) ==
  CHOOSE i \in 1..Len(modules) :
     /\ n \in ModuleNames(modules[i])
     /\ \A j \in 1..(i - 1) : n \notin ModuleNames(modules[j])

RECURSIVE SelectName(_, _)
SelectName(decls, n) ==
  IF decls = <<>> THEN <<>>
  ELSE IF Head(decls).name = n THEN <<Head(decls)>> \o SelectName(Tail(decls), n)
  ELSE SelectName(Tail(decls), n)

\* C5: under the warn and silent policies the merged list keeps, for a name
\* declared by several files, the declarations of the file discovered first
\* and none of any later file.
C5_FirstWins ==
  (phase = "done" /\ onDuplicate \in {"warn", "silent"}) =>
     \A n \in Names :
        (\E i \in 1..Len(modules) : n \in ModuleNames(modules[i])) =>
           SelectName(result, n) =
              SelectName(modules[FirstModuleDeclaring(n)].declarations, n)

C5_LaterDiscarded ==
  /\ phase = "done" /\ onDuplicate \in {"warn", "silent"}
  /\ \E i, j, k \in 1..Len(modules) :
        i < j /\ j < k /\ ModuleNames(modules[i]) \cap ModuleNames(modules[j])
                              \cap ModuleNames(modules[k]) # {}

\* C6: in follow mode local or all, an import that the mode follows and that
\* resolves to no existing file makes the conversion fail; no declaration
\* list is returned after such an import was dropped.
ModeFollows(importPath) ==
  \/ followImports = "all"
  \/ followImports = "local" /\ isRelativeImport(importPath)

C6_NoSilentDrop ==
  phase = "done" =>
     \A i \in 1..Len(modules) : \A k \in 1..Len(modules[i].imports) :
        ModeFollows(modules[i].imports[k]) => modules[i].imports[k].file # NoFile

\* C6 as amended: in follow mode local or all, no declaration list is
\* returned when a loaded file holds a relative import that resolves to no
\* existing file; the failure is the resolution error for that path.
C6_RelativeMustResolve ==
  /\ (phase = "done" /\ followImports \in {"local", "all"}) =>
        \A i \in 1..Len(modules) : \A k \in 1..Len(modules[i].imports) :
           isRelativeImport(modules[i].imports[k]) => modules[i].imports[k].file # NoFile
  /\ (phase = "failed" /\ error.kind = "CannotResolve") =>
        resolveExtensions(error.path) = NoFile

C6_MissingImportFails ==
  /\ phase = "failed" /\ error.kind = "CannotResolve"
  /\ Len(modules) > 0
  /\ \E k \in 1..Len(modules[Len(modules)].imports) :
        /\ isRelativeImport(modules[Len(modules)].imports[k])
        /\ modules[Len(modules)].imports[k].file = NoFile


(***************************************************************************)
(* Properties of the emitter.                                              *)
(***************************************************************************)
Declared == {declarations[i].name : i \in 1..Len(declarations)}

RECURSIVE NodeReferences(_)
NodeReferences(node) ==
  IF node.kind = "reference"
  THEN {node.name} \cup UNION {NodeReferences(node.typeArgs[i]) : i \in 1..Len(node.typeArgs)}
  ELSE IF node.kind = "array" THEN NodeReferences(node.element)
  ELSE {}

DeclReferences(n) ==
  UNION {NodeReferences(GetDeclaration(n).properties[i].type) :
            i \in 1..Len(GetDeclaration(n).properties)}

RECURSIVE ReferenceClosure(_)
ReferenceClosure(S) ==
  LET T == S \cup UNION {DeclReferences(n) : n \in S \cap Declared} IN
    IF T = S THEN S ELSE ReferenceClosure(T)

ContainsSelfReference(n) == n \in ReferenceClosure(DeclReferences(n))

\* C7: with rootType naming a declared type R, if R contains a reference to
\* itself, directly or through other declarations, the document is emitted
\* with R under $defs and a root that is a $ref to R; otherwise R's schema is
\* the root and R is not a key of $defs.
C7_SelfReferenceRule ==
  (ephase \in {"emitted", "threw"} /\ options.rootType \in Declared) =>
     /\ ephase = "emitted"
     /\ IF ContainsSelfReference(options.rootType)
        THEN /\ document.root = RefSchema(options.rootType)
             /\ options.rootType \in DOMAIN document.defs
        ELSE /\ document.root = emitDeclaration(GetDeclaration(options.rootType))
             /\ options.rootType \notin DOMAIN document.defs

ExpectedAdditionalProperties(indexSignature, tag) ==
  IF indexSignature # NoIndex THEN emitType(indexSignature.valueType, StackLimit)
  ELSE IF options.includeJSDoc /\ toLowerCase(tag) \in {"true", "false"}
  THEN BoolSchema(toLowerCase(tag) = "true")
  ELSE IF options.strictObjects THEN BoolSchema(FALSE)
  ELSE IF options.additionalProperties # "undefined"
  THEN BoolSchema(options.additionalProperties = "true")
  ELSE Absent

\* C8: every emitted object schema has the additionalProperties of the
\* first applicable rule: index signature, then tag, then strictObjects, then
\* the option, else none; for a tag on an interface, on a type alias and on a
\* property.
C8_Precedence ==
  ephase = "emitted" =>
     \A i \in 1..Len(declarations) :
        LET decl == declarations[i]
            schema == document.defs[decl.name]
        IN IF decl.kind = "type_alias"
           THEN schema.additionalProperties =
                   ExpectedAdditionalProperties(decl.type.indexSignature, decl.tags)
           ELSE /\ schema.additionalProperties =
                      ExpectedAdditionalProperties(decl.indexSignature, decl.tags)
                /\ \A k \in 1..Len(decl.properties) :
                      decl.properties[k].type.kind = "object" =>
                         schema.properties[k].schema.additionalProperties =
                            ExpectedAdditionalProperties(decl.properties[k].type.indexSignature,
                                                         decl.properties[k].tags)

(***************************************************************************)
(* Properties of the parser and of the import extractor.                   *)
(***************************************************************************)
\* C9: parsing a token sequence returns a declaration list or fails with a
\* ParseError carrying a token, with its line and column, of the sequence;
\* it fails in no other way.
C9_OnlyParseError ==
  tphase = "threw" =>
     /\ outcome.error = "ParseError"
     /\ \E p \in 1..Len(Input) : outcome.token = Input[p]

\* C10: import extraction raises no error, whatever the token sequence.
C10_NeverRaises == tphase # "threw"

(***************************************************************************)
(* C11.  tokenize on every source text of at most MaxChars characters.     *)
(***************************************************************************)
\* a character of every class the main loop tells apart
SourceChars == {"\n", " ", "/", "*", "\"", "\\", Backtick, "-", "1", "a", "s", "{", "#"}

LexInit == RIdle /\ EIdle /\ TIdle /\ LInit
LexNext ==
  \/ Type(SourceChars)
  \/ ScanToken
  \/ ReturnTokens
LexSpec == LexInit /\ [][LexNext]_vars
\* a call of tokenize runs on: nothing but its own loop can stop it
LexFairSpec == LexSpec /\ WF_vars(ScanToken) /\ WF_vars(ReturnTokens)

EndsInEof ==
  /\ scanned # <<>>
  /\ scanned[Len(scanned)].type = "eof"
  /\ \A k \in 1..Len(scanned) - 1 : scanned[k].type # "eof"

\* the characters the main loop recognizes nowhere
Unknown == {"#", "\\"}
UnknownSkipped ==
  \A k \in 1..Len(scanned) :
     scanned[k].type \notin {"string", "jsdoc"} =>
       \A n \in 1..Len(scanned[k].value) : scanned[k].value[n] \notin Unknown

\* C11: tokenize raises nothing and returns for every source text; the tokens
\* it returns end in eof, hold no other eof token, and the characters it does
\* not recognize are in no token outside strings and doc comments.
C11_TokenizeReturns ==
  /\ [](lphase = "returned" => EndsInEof /\ UnknownSkipped)
  /\ <>(lphase = "returned")

\* a text with an unknown character and an unterminated escape has been tokenized
C11_UnknownAndEscapeScanned ==
  /\ lphase = "returned"
  /\ \E k \in 1..Len(source) : source[k] = "#"
  /\ Len(source) >= 2 /\ source[Len(source)] = "\\" /\ source[Len(source) - 1] = "\""
  /\ index > Len(source)

(***************************************************************************)
(* C12, C13.  Parser.parse on source texts written statement by statement: *)
(* import statements, re-exports, declare statements and declarations, as  *)
(* tokenize scans them (declare, function, var, let, class, namespace and  *)
(* module are identifiers; const, type, import, export, from and as are    *)
(* keywords).                                                              *)
(***************************************************************************)
Kw(v) == Token("keyword", v)
Pn(v) == Token("punctuation", v)
Id(v) == Token("identifier", v)
Str(v) == Token("string", v)
Prim(v) == Token("primitive", v)

Statement(kind, form, text, declares) ==
  [kind |-> kind, form |-> form, text |-> text, declares |-> declares]

ImportStatements ==
  { Statement("import", "import { X } from",
              <<Kw("import"), Pn("{"), Id("X"), Pn("}"), Kw("from"), Str("./m")>>, <<>>),
    Statement("import", "import X from",
              <<Kw("import"), Id("X"), Kw("from"), Str("./m")>>, <<>>),
    Statement("import", "import * as X from",
              <<Kw("import"), Pn("*"), Kw("as"), Id("X"), Kw("from"), Str("./m")>>, <<>>),
    Statement("import", "import type { X } from",
              <<Kw("import"), Kw("type"), Pn("{"), Id("X"), Pn("}"), Kw("from"), Str("./m")>>,
              <<>>),
    Statement("import", "import type X from",
              <<Kw("import"), Kw("type"), Id("X"), Kw("from"), Str("./m")>>, <<>>),
    Statement("import", "import type * as X from",
              <<Kw("import"), Kw("type"), Pn("*"), Kw("as"), Id("X"), Kw("from"), Str("./m")>>,
              <<>>),
    Statement("import", "export { X } from",
              <<Kw("export"), Pn("{"), Id("X"), Pn("}"), Kw("from"), Str("./m")>>, <<>>),
    Statement("import", "export type { X } from",
              <<Kw("export"), Kw("type"), Pn("{"), Id("X"), Pn("}"), Kw("from"), Str("./m")>>,
              <<>>),
    Statement("import", "export * from",
              <<Kw("export"), Pn("*"), Kw("from"), Str("./m")>>, <<>>) }

DeclareStatements ==
  { Statement("declare", "declare function",
              <<Id("declare"), Id("function"), Id("f"), Pn("("), Pn(")"), Pn(":"),
                Prim("void"), Pn(";")>>, <<>>),
    Statement("declare", "declare var",
              <<Id("declare"), Id("var"), Id("v"), Pn(":"), Prim("string"), Pn(";")>>, <<>>),
    Statement("declare", "declare let",
              <<Id("declare"), Id("let"), Id("v"), Pn(":"), Prim("string"), Pn(";")>>, <<>>),
    Statement("declare", "declare const",
              <<Id("declare"), Kw("const"), Id("v"), Pn(":"), Prim("string"), Pn(";")>>, <<>>),
    Statement("declare", "declare class",
              <<Id("declare"), Id("class"), Id("K"), Pn("{"), Id("a"), Pn(":"),
                Prim("string"), Pn(";"), Pn("}")>>, <<>>),
    Statement("declare", "declare namespace with an interface",
              <<Id("declare"), Id("namespace"), Id("N"), Pn("{"),
                Kw("interface"), Id("Inner"), Pn("{"), Pn("}"), Pn("}")>>, <<>>),
    Statement("declare", "declare module with a type alias",
              <<Id("declare"), Id("module"), Str("m"), Pn("{"),
                Kw("type"), Id("Inner"), Pn("="), Prim("string"), Pn(";"), Pn("}")>>, <<>>),
    Statement("declare", "declare module with an enum",
              <<Id("declare"), Id("module"), Str("m"), Pn("{"),
                Kw("enum"), Id("Inner"), Pn("{"), Id("a"), Pn("}"), Pn("}")>>, <<>>) }

DeclarationStatements ==
  { Statement("declaration", "interface",
              <<Kw("interface"), Id("A"), Pn("{"), Id("a"), Pn(":"), Prim("string"), Pn("}")>>,
              <<[kind |-> "interface", name |-> "A"]>>),
    Statement("declaration", "export type",
              <<Kw("export"), Kw("type"), Id("B"), Pn("="), Prim("string"), Pn(";")>>,
              <<[kind |-> "type_alias", name |-> "B"]>>) }

ModuleInit == RIdle /\ EIdle /\ TInit /\ LIdle
ModuleNext ==
  \/ WriteStatement(ImportStatements \cup DeclareStatements \cup DeclarationStatements)
  \/ Parse
ModuleSpec == ModuleInit /\ [][ModuleNext]_vars

Parsed == tphase \in {"returned", "threw"}
StatementKinds == {statements[k].kind : k \in 1..Len(statements)}
\* what parse() returns for the text without its import and declare statements
DeclarationsWritten ==
  Concat([k \in 1..Len(statements) |->
             IF statements[k].kind = "declaration" THEN statements[k].declares ELSE <<>>])

\* C12: a text of import statements, re-exports and declarations parses
\* without error to the declarations of the text without the import
\* statements and re-exports.
C12_ImportsIgnored ==
  Parsed /\ StatementKinds \subseteq {"import", "declaration"} =>
    Ok(outcome) /\ outcome.declarations = DeclarationsWritten

\* C13: a text of declare statements and declarations parses without error
\* to the declarations of the text without the declare statements.
C13_DeclareIgnored ==
  Parsed /\ StatementKinds \subseteq {"declare", "declaration"} =>
    Ok(outcome) /\ outcome.declarations = DeclarationsWritten

(***************************************************************************)
(* C14.  Batch output for interfaces that refer to each other, also        *)
(* through Pick and arrays, and to a declared interface named Record.      *)
(***************************************************************************)
BatchNames == TypeNames \cup {"Record"}
BatchTypes ==
  {Primitive}
    \cup UNION {{Reference(n), ArrayOf(Reference(n)),
                 Generic("Pick", <<Reference(n), LiteralString(PropName[1])>>)} :
                  n \in BatchNames}
BatchDecls ==
  {Interface(n, Properties(types), NoIndex, NoTag) :
      n \in BatchNames, types \in SeqsUpTo(BatchTypes, MaxProps)}

BatchInit == RIdle /\ EInit({DefaultOptions}) /\ TIdle /\ LIdle
BatchNext ==
  \/ Declare(BatchDecls)
  \/ EmitAll
BatchSpec == BatchInit /\ [][BatchNext]_vars

\* C14: in batch output the keys of the definitions block of every declared
\* type D are the declared types D refers to, directly or through other
\* declarations; D is among them exactly when it refers to itself.
C14_MinimalDefinitions ==
  ephase = "emittedAll" =>
     \A n \in Declared :
        DOMAIN document[n].definitions = ReferenceClosure(DeclReferences(n)) \cap Declared

(***************************************************************************)
(* C15.  defineNameTransform (spec.md 4.5.10).  The emitter of             *)
(* src/src/emitter.ts has no such option; the name map, its collision      *)
(* check and the renaming of keys and $ref pointers follow spec.md, the     *)
(* callback being a function of the original name.                         *)
(***************************************************************************)
OutNames == TypeNames \cup {"SameName"}
NameTransforms == [TypeNames -> OutNames]
WithNameTransform(opts, f) ==
  [k \in DOMAIN opts \cup {"defineNameTransform"} |->
     IF k = "defineNameTransform" THEN f ELSE opts[k]]
NameOptions == {WithNameTransform(o, f) : o \in RootOptions, f \in NameTransforms}

\* the map original -> transformed, built before emitting
buildNameMap == [n \in Declared |-> options.defineNameTransform[n]]
\* two originals mapping to the same transformed name
nameCollisionUndetected == FALSE
nameCollision ==
  \E m, n \in Declared : m # n /\ buildNameMap[m] = buildNameMap[n]

transformName(n) == IF n \in DOMAIN buildNameMap THEN buildNameMap[n] ELSE n
originalName(defs, o) == CHOOSE n \in DOMAIN defs : transformName(n) = o

\* every $ref pointer uses the transformed name
RECURSIVE transformRefs(_)
transformRefs(schema) ==
  IF schema.t = "ref" THEN RefSchema(transformName(schema.ref))
  ELSE IF schema.t = "array"
  THEN [schema EXCEPT !.items = transformRefs(schema.items)]
  ELSE IF schema.t = "nullable"
  THEN [schema EXCEPT !.schema = transformRefs(schema.schema)]
  ELSE IF schema.t = "anyOf"
  THEN [schema EXCEPT !.anyOf = [i \in 1..Len(schema.anyOf) |-> transformRefs(schema.anyOf[i])]]
  ELSE IF schema.t = "object"
  THEN [schema EXCEPT
          !.properties = [k \in 1..Len(schema.properties) |->
                            [schema.properties[k] EXCEPT
                               !.schema = transformRefs(schema.properties[k].schema)]],
          !.additionalProperties = transformRefs(schema.additionalProperties)]
  ELSE schema

\* the $defs of emit() under their transformed keys
transformDefs(defs) ==
  [o \in {transformName(n) : n \in DOMAIN defs} |-> transformRefs(defs[originalName(defs, o)])]

\* new Emitter(declarations, {defineNameTransform}).emit()
EmitNamed ==
  /\ ephase = "constructed"
  /\ IF nameCollision
     THEN /\ ephase' = "NameCollisionError"
          /\ UNCHANGED document
     ELSE IF \E n \in DOMAIN Defs : HasOverflow(Defs[n])
     THEN /\ ephase' = "threw"
          /\ UNCHANGED document
     ELSE /\ ephase' = "emitted"
          /\ document' =
               IF options.rootType # "" /\ options.rootType \in DOMAIN Defs
               THEN IF isTransitivelySelfReferential(options.rootType, Defs)
                    THEN [root |-> RefSchema(transformName(options.rootType)),
                          defs |-> transformDefs(Defs)]
                    ELSE [root |-> transformRefs(Defs[options.rootType]),
                          defs |-> transformDefs(Without(Defs, options.rootType))]
               ELSE [root |-> EmptySchema, defs |-> transformDefs(Defs)]
  /\ UNCHANGED <<declarations, options>>
  /\ UNCHANGED <<rvars, tvars, lvars>>

NameInit == RIdle /\ EInit(NameOptions) /\ TIdle /\ LIdle
NameNext ==
  \/ Declare(RootDecls)
  \/ EmitNamed
NameSpec == NameInit /\ [][NameNext]_vars

\* the declarations that have a place of their own in the document
Places ==
  Cardinality(DOMAIN document.defs)
    + (IF document.root.t = "ref" \/ document.root = EmptySchema THEN 0 ELSE 1)

SameOutput ==
  \E m, n \in Declared :
     m # n /\ options.defineNameTransform[m] = options.defineNameTransform[n]
\* C15: when the name transform maps two declared names to one output name
\* the conversion fails with a name-collision error and returns no document;
\* a returned document holds every declaration in a place of its own.
C15_CollisionFails ==
  /\ ephase # "constructed" /\ SameOutput
        => ephase = "NameCollisionError" /\ document.root = Absent
  /\ ephase = "emitted" => Places = Cardinality(Declared)

\* two declarations renamed to one name, and the conversion has failed
C15_CollisionReported ==
  /\ ephase = "NameCollisionError"
  /\ Len(declarations) = 2
  /\ options.defineNameTransform["A"] = "SameName"
  /\ options.defineNameTransform["B"] = "SameName"

(***************************************************************************)
(* C16.  Type aliases of unions whose members are leaves, unions, or       *)
(* unions written between parentheses.                                      *)
(***************************************************************************)
MaxMembers == 2
UnionLeaves == {LiteralString("a"), NullType, Primitive}
LeafUnions == {Union(ms) : ms \in [1..MaxMembers -> UnionLeaves]}
UnionMembers ==
  UnionLeaves \cup LeafUnions \cup {Parenthesized(u) : u \in LeafUnions}
Unions == {Union(ms) : ms \in [1..MaxMembers -> UnionMembers]}
UnionDecls == {TypeAlias(n, u, NoTag) : n \in TypeNames, u \in Unions}

UnionInit == RIdle /\ EInit({DefaultOptions}) /\ TIdle /\ LIdle
UnionNext ==
  \/ Declare(UnionDecls)
  \/ Emit
UnionSpec == UnionInit /\ [][UnionNext]_vars

\* the leaf members of a union, in source order
RECURSIVE Leaves(_)
Leaves(node) ==
  IF node.kind = "union"
  THEN Concat([k \in 1..Len(node.members) |-> Leaves(node.members[k])])
  ELSE IF node.kind = "parenthesized" /\ node.inner.kind = "union" THEN Leaves(node.inner)
  ELSE <<node>>

\* C16: a union that contains nested unions emits the same schema as the
\* flat union of its leaf members in the same order.
C16_FlatteningIdempotent ==
  ephase = "emitted" =>
     \A n \in Declared :
        document.defs[n] = emitType(Union(Leaves(GetDeclaration(n).type)), StackLimit)

(***************************************************************************)
(* C17.  Interfaces whose properties are Pick and Omit of declared          *)
(* interfaces, the keys being a literal, a union of literals, or either     *)
(* one between parentheses.                                                 *)
(***************************************************************************)
KeyNodes ==
  LET a == LiteralString(PropName[1])
      b == LiteralString(PropName[2])
  IN {a, b, Union(<<a, b>>), Parenthesized(a), Parenthesized(Union(<<a, b>>))}
PickTypes ==
  {Primitive}
    \cup {Generic(u, <<Reference(n), k>>) : u \in {"Pick", "Omit"}, n \in TypeNames, k \in KeyNodes}
PickDecls ==
  {Interface(n, Properties(types), NoIndex, NoTag) :
      n \in TypeNames, types \in SeqsUpTo(PickTypes, MaxProps)}

PickInit == RIdle /\ EInit({DefaultOptions}) /\ TIdle /\ LIdle
PickNext ==
  \/ Declare(PickDecls)
  \/ Emit
PickSpec == PickInit /\ [][PickNext]_vars

\* the string literals a key type stands for
RECURSIVE KeySet(_)
KeySet(node) ==
  IF node.kind = "literal_string" THEN {node.value}
  ELSE IF node.kind = "parenthesized" THEN KeySet(node.inner)
  ELSE UNION {KeySet(node.members[k]) : k \in 1..Len(node.members)}
PropertyNamesOf(decl) == {decl.properties[k].name : k \in 1..Len(decl.properties)}
\* the property names of an emitted schema, those of its target for a $ref
SchemaNames(schema) ==
  LET at == IF schema.t = "ref" THEN document.defs[schema.ref] ELSE schema
  IN {at.properties[k].name : k \in 1..Len(at.properties)}
\* property k of declaration d is Pick<T, K> or Omit<T, K>, T declared, K among T's names
IsSelection(d, k) ==
  LET type == declarations[d].properties[k].type IN
    /\ type.kind = "reference" /\ type.name \in {"Pick", "Omit"}
    /\ HasDeclaration(type.typeArgs[1].name)
    /\ KeySet(type.typeArgs[2]) \subseteq PropertyNamesOf(GetDeclaration(type.typeArgs[1].name))

\* C17: Pick<T, K> emits a schema whose property names are exactly K, and
\* Omit<T, K> one whose property names are exactly those of T outside K,
\* for K a set of string-literal keys among the property names of T.
C17_PickOmitNames ==
  ephase \in {"emitted", "threw"} =>
     \A d \in 1..Len(declarations) : \A k \in 1..Len(declarations[d].properties) :
        IsSelection(d, k) =>
           LET type == declarations[d].properties[k].type
               T == PropertyNamesOf(GetDeclaration(type.typeArgs[1].name))
               K == KeySet(type.typeArgs[2])
           IN /\ ephase = "emitted"
              /\ SchemaNames(document.defs[declarations[d].name].properties[k].schema)
                   = IF type.name = "Pick" THEN K ELSE T \ K

(***************************************************************************)
(* C18.  Interfaces without JSDoc, as parseObjectBody builds them: any      *)
(* names, also one name twice, optional or not, with or without an index    *)
(* signature.                                                               *)
(***************************************************************************)
ShapeProperties ==
  {[Property(n, Primitive, NoTag) EXCEPT !.optional = o] :
      n \in {PropName[1], PropName[2]}, o \in BOOLEAN}
ShapeDecls ==
  {Interface(n, props, idx, NoTag) :
      n \in TypeNames, props \in SeqsUpTo(ShapeProperties, MaxProps), idx \in IndexChoices}
ShapeOptions == {o \in ObjectOptions : o.includeJSDoc}

ShapeInit == RIdle /\ EInit(ShapeOptions) /\ TIdle /\ LIdle
ShapeNext ==
  \/ Declare(ShapeDecls)
  \/ Emit
ShapeSpec == ShapeInit /\ [][ShapeNext]_vars

NonOptional(decl) == {k \in 1..Len(decl.properties) : ~decl.properties[k].optional}
\* additionalProperties is the schema of the index signature exactly when there is one
IndexFidelity(decl, schema) ==
  IF decl.indexSignature # NoIndex
  THEN schema.additionalProperties = emitType(decl.indexSignature.valueType, StackLimit)
  ELSE schema.additionalProperties.t \in {"absent", "boolean"}

AllTags ==
  <<[key |-> "minimum", value |-> "0"], [key |-> "maximum", value |-> "1"],
    [key |-> "minLength", value |-> "0"], [key |-> "maxLength", value |-> "1"],
    [key |-> "pattern", value |-> "^[A-Z]"], [key |-> "format", value |-> "email"],
    [key |-> "default", value |-> "0"], [key |-> "example", value |-> "0"],
    [key |-> "examples", value |-> "1"], [key |-> "deprecated", value |-> ""],
    [key |-> "title", value |-> "Title"]>>
Comments ==
  {[description |-> NoDescription, tags |-> NoTag, jsdoc |-> <<>>],
   [description |-> "text", tags |-> NoTag, jsdoc |-> <<>>],
   [description |-> "text", tags |-> "false", jsdoc |-> AllTags]}
Commented(node, c) ==
  [k \in DOMAIN node |-> IF k \in DOMAIN c /\ k \in DOMAIN node THEN c[k] ELSE node[k]]
JSDocTypes == {Reference("Date"), ObjectType(<<>>, IndexSignature(Primitive))}
JSDocProperties ==
  {[Commented(Property(PropName[1], t, NoTag), c) EXCEPT !.readonly = r] :
      t \in JSDocTypes, c \in Comments, r \in BOOLEAN}
SecondProperties ==
  {Property(PropName[2], Primitive, NoTag),
   [Commented(Property(PropName[2], Primitive, NoTag), CHOOSE c \in Comments : c.jsdoc # <<>>)
      EXCEPT !.readonly = TRUE]}
JSDocPropertyLists ==
  {<<>>} \cup {<<p>> : p \in JSDocProperties}
         \cup {<<p, q>> : p \in JSDocProperties, q \in SecondProperties}
DeclComments == {[description |-> NoDescription, tags |-> NoTag],
                 [description |-> "text", tags |-> "false"]}
JSDocDecls ==
  UNION {{Commented(Interface(n, props, idx, NoTag), c) : props \in JSDocPropertyLists}
           \cup {Commented(TypeAlias(n, ObjectType(<<>>, idx), NoTag), c)} :
            n \in TypeNames, idx \in IndexChoices, c \in DeclComments}
JSDocOptions == {[DefaultOptions EXCEPT !.includeJSDoc = j] : j \in BOOLEAN}

\* a second conversion of the same declarations with includeJSDoc the other way
Reconvert ==
  /\ ephase = "emitted"
  /\ options' = [options EXCEPT !.includeJSDoc = ~@]
  /\ declarations' = declarations
  /\ document' = emitDocument'
  /\ ephase' = "reconverted"
  /\ UNCHANGED <<rvars, tvars, lvars>>

JSDocInit == RIdle /\ EInit(JSDocOptions) /\ TIdle /\ LIdle
JSDocNext ==
  \/ Declare(JSDocDecls)
  \/ Emit
  \/ Reconvert
JSDocSpec == JSDocInit /\ [][JSDocNext]_vars

JSDocKeywords ==
  {"description", "minimum", "maximum", "minLength", "maxLength", "pattern", "format",
   "default", "examples", "deprecated", "title"}
\* no description and no keyword of a tag; the format of a Date is not of a tag
NoJSDoc(schema) ==
  /\ DOMAIN schema \cap JSDocKeywords
        \subseteq (IF "format" \in DOMAIN schema /\ schema.format = DateSchema.format
                   THEN {"format"} ELSE {})
  /\ schema.t = "object" => schema.additionalProperties.t # "boolean"
IndexOf(node) ==
  IF "indexSignature" \in DOMAIN node THEN node.indexSignature ELSE NoIndex
\* type, properties, required, readOnly and index-signature additionalProperties agree
SameStructure(node, on, off) ==
  /\ on.t = off.t
  /\ ("readOnly" \in DOMAIN on) = ("readOnly" \in DOMAIN off)
  /\ on.t = "type" => on.type = off.type
  /\ on.t = "object" =>
        /\ on.required = off.required
        /\ [k \in 1..Len(on.properties) |-> on.properties[k].name]
             = [k \in 1..Len(off.properties) |-> off.properties[k].name]
        /\ IndexOf(node) # NoIndex => on.additionalProperties = off.additionalProperties
\* the declaration or object type node, its schema with and without JSDoc
Suppressed(node, on, off) ==
  /\ NoJSDoc(off)
  /\ SameStructure(node, on, off)
  /\ \A k \in 1..Len(node.properties) :
        /\ NoJSDoc(off.properties[k].schema)
        /\ SameStructure(node.properties[k].type, on.properties[k].schema,
                         off.properties[k].schema)

\* C19: with includeJSDoc = false the output has no description and no
\* keyword derived from JSDoc, while type, properties, required, readOnly and
\* index-signature additionalProperties are what they are with includeJSDoc = true.
C19_JSDocSuppressed ==
  [][ephase = "emitted" /\ ephase' = "reconverted" =>
       \A n \in Declared :
          LET decl == GetDeclaration(n)
              node == IF decl.kind = "interface" THEN decl ELSE decl.type
              on == IF options.includeJSDoc THEN document.defs[n] ELSE document'.defs[n]
              off == IF options.includeJSDoc THEN document'.defs[n] ELSE document.defs[n]
          IN Suppressed(node, on, off)]_vars

(***************************************************************************)
(* C20.  The order of the merged declarations against a depth-first walk   *)
(* of the import statements on disk.                                        *)
(***************************************************************************)
RECURSIVE Discover(_, _)
RECURSIVE DiscoverImports(_, _, _)
\* the files in the order a depth-first walk from f first reaches them
Discover(f, reached) ==
  Bind(reached, LAMBDA r :
    IF \E k \in 1..Len(r) : r[k] = f THEN r
    ELSE DiscoverImports(f, 1, Append(r, f)))
DiscoverImports(f, k, reached) ==
  Bind(reached, LAMBDA r :
    IF k > Len(disk[f].imports) THEN r
    ELSE DiscoverImports(f, k + 1,
           IF ModeFollows(disk[f].imports[k]) /\ disk[f].imports[k].file # NoFile
           THEN Discover(disk[f].imports[k].file, r) ELSE r))

\* the entry file is the module stored first
DiscoveryOrder == Discover(modules[1].filePath, <<>>)
Place(f) == CHOOSE k \in 1..Len(DiscoveryOrder) : DiscoveryOrder[k] = f

\* C20: the merged declarations are in discovery order: file by file in the
\* order a depth-first walk of the imports first reaches the files, and in
\* source order inside a file; without a name collision nothing is missing.
C20_DiscoveryOrder ==
  phase = "done" =>
     /\ \A i, j \in 1..Len(result) :
           i < j =>
              \/ Place(result[i].file) < Place(result[j].file)
              \/ result[i].file = result[j].file /\ result[i].pos < result[j].pos
     /\ ~Collision =>
           result = Concat([k \in 1..Len(DiscoveryOrder) |->
                              Declarations(DiscoveryOrder[k], disk[DiscoveryOrder[k]].names)])

\* file 2 is reached through file 3 before the entry file imports it, and the
\* merged list holds a declaration of file 3 before one of file 2
C20_DescendedFirst ==
  /\ phase = "done"
  /\ DiscoveryOrder = <<1, 3, 2>>
  /\ Len(disk[1].imports) = 2 /\ disk[1].imports[2].file = 2
  /\ disk[3].imports # <<>>
  /\ Len(result) = 2 /\ result[1].file = 3 /\ result[2].file = 2

(***************************************************************************)
(* C21.  Several file conversions one after the other on the same files:   *)
(* every call of toJsonSchemaFromFile builds its own ModuleResolver.       *)
(***************************************************************************)
MaxCalls == 3

\* mutant: the visited set of the previous resolver is used again
VisitedKept == visited

\* private visited = new Set<string>()
VisitedNew == {}

\* new ModuleResolver(options) of the next call, once the last call is over
NewModuleResolver(modes, policies) ==
  /\ phase \in {"done", "failed"}
  /\ Len(calls) < MaxCalls
  /\ followImports' \in modes
  /\ onDuplicate' \in policies
  /\ visited' = VisitedNew
  /\ modules' = <<>>
  /\ stack' = <<>>
  /\ pending' = Null
  /\ phase' = "init"
  /\ result' = <<>>
  /\ warnings' = <<>>
  /\ error' = NoError
  /\ UNCHANGED <<disk, reads, calls>>
  /\ UNCHANGED <<evars, tvars, lvars>>

CallModes == {"local"}
CallPolicies == {"unset", "silent"}
CallEntries == {PathKey(1, TRUE), PathKey(2, FALSE)}
CallContents == OkContents(SeqsUpTo(MergeImports, 1), SeqsUpTo(Names, 1), Room)

CallInit == RInit(CallModes, CallPolicies) /\ EIdle /\ TIdle /\ LIdle
CallNext ==
  \/ ResolveFromEntry(CallEntries)
  \/ Traverse
  \/ EnterRead(CallContents)
  \/ NewModuleResolver(CallModes, CallPolicies)
CallSpec == CallInit /\ [][CallNext]_vars

SameArguments(a, b) ==
  /\ a.entryPath = b.entryPath
  /\ a.followImports = b.followImports
  /\ a.onDuplicate = b.onDuplicate

\* C21: two calls with the same arguments on the same file contents end the
\* same way, with the same declaration list or the same error, whatever calls
\* were made before each of them.
C21_CallsIndependent ==
  \A i, j \in 1..Len(calls) :
     (/\ SameArguments(calls[i], calls[j])
      /\ calls[i].outcome # "running" /\ calls[j].outcome # "running") =>
        /\ calls[i].outcome = calls[j].outcome
        /\ calls[i].result = calls[j].result
        /\ calls[i].error = calls[j].error

\* the first call is repeated after a call with other arguments, and returns
\* the declarations of two files both times
C21_RepeatedAfterAnother ==
  /\ Len(calls) = 3 /\ phase = "done"
  /\ SameArguments(calls[1], calls[3]) /\ ~SameArguments(calls[1], calls[2])
  /\ calls[2].outcome = "returned"
  /\ Len(calls[3].result) = 2

(***************************************************************************)
(* C22.  Every iteration of the import loop of resolveModule against the   *)
(* follow mode and the form of the specifier.                              *)
(***************************************************************************)
\* the import statement the loop is at, and the step that handles it
CurrentImport == TopImports[Top.i]
ImportHandled ==
  /\ phase = "resolving" /\ pending = Null /\ stack # <<>>
  /\ Top.i <= Len(TopImports)
  /\ Len(stack') = Len(stack)
  /\ stack'[Len(stack)].i = Top.i + 1
Followed == pending' # Null

\* what the follow mode prescribes for a specifier, by its form alone
Prescribed(importPath) ==
  \/ followImports = "local" /\ importPath.rel
  \/ followImports = "all"

\* a bare specifier for which the node_modules walk finds no package
NoSuchPackage(importPath) == ~importPath.rel /\ importPath.file = NoFile

SkippedSilently ==
  ~Followed => UNCHANGED <<disk, visited, modules, reads, phase, result, warnings, error>>

\* a resolution error names the entry path or the target of a relative import
ErrorFromFollowed ==
  (phase = "failed" /\ error.kind = "CannotResolve") =>
     \/ error.path = calls[Len(calls)].entryPath
     \/ \E i \in 1..Len(modules) : \E k \in 1..Len(modules[i].imports) :
           /\ modules[i].imports[k].rel
           /\ error.path = PathKey(modules[i].imports[k].file, modules[i].imports[k].ext)

MaxEnumMembers == 3
MemberName == <<"a", "b", "c", "d">>
EnumInits == {"none", "string", "negative", "dotted", "identifier", "expression"}
NumberInits == {"negative", "dotted"}
InitText(init) ==
  CASE init = "none" -> <<>>
    [] init = "string" -> <<Pn("="), Str("s")>>
    [] init = "negative" -> <<Pn("="), Token("number", "-1")>>
    [] init = "dotted" -> <<Pn("="), Token("number", "1.2.3")>>
    [] init = "identifier" -> <<Pn("="), Id("x")>>
    [] init = "expression" -> <<Pn("="), Id("x"), Pn("|"), Id("y")>>
\* enum E { a <init>, b <init>, ... }
EnumText(inits) ==
  <<Kw("enum"), Id("E"), Pn("{")>>
    \o Concat([k \in 1..Len(inits) |->
                 <<Id(MemberName[k])>> \o InitText(inits[k]) \o <<Pn(",")>>])
    \o <<Pn("}")>>
EnumStatement(inits) ==
  Statement("declaration", inits, EnumText(inits), <<[kind |-> "enum", name |-> "E"]>>)
\* an enum of every form, and after it an interface, a type alias or an enum
EnumStatements ==
  IF statements = <<>>
  THEN {EnumStatement(inits) : inits \in SeqsUpTo(EnumInits, MaxEnumMembers)}
  ELSE DeclarationStatements \cup {EnumStatement(<<"none", "string", "none">>)}

EnumInit == RIdle /\ EIdle /\ TInit /\ LIdle
EnumNext ==
  \/ WriteStatement(EnumStatements)
  \/ Parse
EnumSpec == EnumInit /\ [][EnumNext]_vars

\* the enum nodes the parser built, in order
EnumNodes == SelectSeq(outcome.produced, LAMBDA node : node.kind = "enum")
MemberNames(node) == [k \in 1..Len(node.members) |-> node.members[k].name]
EnumsWritten == SelectSeq(statements, LAMBDA st : st.declares[1].kind = "enum")
\* every enum was parsed to an enum with the members that were written
MembersAsWritten ==
  /\ Len(EnumNodes) = Len(EnumsWritten)
  /\ \A k \in 1..Len(EnumsWritten) :
        MemberNames(EnumNodes[k]) = SubSeq(MemberName, 1, Len(EnumsWritten[k].form))

\* C23: whatever the initializers of its members are, an enum parses without
\* error to an enum with all its members, and so do the declarations after it.
C23_InitializerSkipped ==
  Parsed => /\ Ok(outcome)
            /\ outcome.declarations = DeclarationsWritten
            /\ MembersAsWritten

Increases(members, i, j) ==
  /\ members[i].value.t = "number" /\ members[j].value.t = "number"
  /\ members[i].value.n < members[j].value.n

\* C24: in every parsed enum the values of the members without initializer
\* strictly increase in member order.
C24_AutoValuesIncrease ==
  (tphase = "returned" /\ MembersAsWritten) =>
     \A k \in 1..Len(EnumsWritten) : \A i, j \in 1..Len(EnumsWritten[k].form) :
        (i < j /\ EnumsWritten[k].form[i] = "none" /\ EnumsWritten[k].form[j] = "none") =>
           Increases(EnumNodes[k].members, i, j)

\* C24 as amended: the values of two members without initializer strictly
\* increase in member order when no member between them has a number
\* initializer and no number initializer before them is malformed.
C24_IncreaseBetweenNumbers ==
  (tphase = "returned" /\ MembersAsWritten) =>
     \A k \in 1..Len(EnumsWritten) : \A i, j \in 1..Len(EnumsWritten[k].form) :
        (/\ i < j /\ EnumsWritten[k].form[i] = "none" /\ EnumsWritten[k].form[j] = "none"
         /\ \A m \in (i + 1)..(j - 1) : EnumsWritten[k].form[m] \notin NumberInits
         /\ \A m \in 1..(i - 1) : EnumsWritten[k].form[m] # "dotted") =>
           Increases(EnumNodes[k].members, i, j)

\* enum E { a = -1, b, c } and enum E { a, b = "s", c } were parsed
C24_CountedOn ==
  /\ tphase = "returned" /\ MembersAsWritten
  /\ Len(EnumsWritten) = 2
  /\ EnumsWritten[1].form = <<"negative", "none", "none">>
  /\ EnumNodes[1].members[2].value = NumberValue(0)
  /\ EnumNodes[1].members[3].value = NumberValue(1)
  /\ EnumsWritten[2].form = <<"none", "string", "none">>
  /\ EnumNodes[2].members[3].value = NumberValue(1)

(***************************************************************************)
(* C25, C26.  Parser.parse on type aliases of references with and without  *)
(* type arguments and of tuples with and without rest elements.            *)
(***************************************************************************)
MaxElements == 2

\* Name, Name<>, Name<string>, Name<string, string>, Name<Foo<>>
ReferenceTexts(name) ==
  { <<"no arguments", <<Id(name)>>>>,
    <<"empty list", <<Id(name), Pn("<"), Pn(">")>>>>,
    <<"one argument", <<Id(name), Pn("<"), Prim("string"), Pn(">")>>>>,
    <<"two arguments",
      <<Id(name), Pn("<"), Prim("string"), Pn(","), Prim("string"), Pn(">")>>>>,
    <<"nested empty list",
      <<Id(name), Pn("<"), Id("Foo"), Pn("<"), Pn(">"), Pn(">")>>>> }

\* string, or ...string[]
ElementText(rest) ==
  IF rest THEN <<Pn("."), Pn("."), Pn("."), Prim("string"), Pn("["), Pn("]")>>
  ELSE <<Prim("string")>>
\* [ element, element, ... ]
TupleText(rests) ==
  <<Pn("[")>>
    \o Concat([k \in 1..Len(rests) |->
                 ElementText(rests[k]) \o (IF k < Len(rests) THEN <<Pn(",")>> ELSE <<>>)])
    \o <<Pn("]")>>

\* type A = <type>;
AliasStatement(form, text) ==
  Statement("declaration", form, <<Kw("type"), Id("A"), Pn("=")>> \o text \o <<Pn(";")>>,
            <<[kind |-> "type_alias", name |-> "A"]>>)
NodeStatements ==
  {AliasStatement(t[1], t[2]) :
      t \in UNION {ReferenceTexts(name) : name \in {"Foo", "Array", "Record", "Promise"}}}
    \cup {AliasStatement("tuple", TupleText(rests)) : rests \in SeqsUpTo(BOOLEAN, MaxElements)}

NodeInit == RIdle /\ EIdle /\ TInit /\ LIdle
NodeNext ==
  \/ WriteStatement(NodeStatements)
  \/ Parse
NodeSpec == NodeInit /\ [][NodeNext]_vars

\* C25: every reference node the parser built that has typeArgs has at
\* least one type argument.
C25_TypeArgsNotEmpty ==
  tphase = "returned" =>
     \A k \in 1..Len(outcome.produced) :
        (outcome.produced[k].kind = "reference" /\ outcome.produced[k].typeArgs.present) =>
           outcome.produced[k].typeArgs.length >= 1

RestPositions(node) == {e \in 1..Len(node.elements) : node.elements[e].rest}

\* C26: every tuple node the parser built has at most one rest element, and
\* a rest element is the last element.
C26_RestUniqueAndLast ==
  tphase = "returned" =>
     \A k \in 1..Len(outcome.produced) :
        outcome.produced[k].kind = "tuple" =>
           RestPositions(outcome.produced[k]) \subseteq {Len(outcome.produced[k].elements)}


(***************************************************************************)
(* C27.  $ref pointers of a single document (spec.md 8).                   *)
(***************************************************************************)
ReferencedNames == UNION {DeclReferences(n) : n \in Declared} \cap TypeNames
AllDeclared == ReferencedNames \subseteq Declared

PointersOf(schema) ==
  LET refs == getReferencedTypes(schema) IN {refs[i] : i \in 1..Len(refs)}
\* the names behind every $ref of a returned document, root and $defs
Pointers(doc) ==
  PointersOf(doc.root) \cup UNION {PointersOf(doc.defs[n]) : n \in DOMAIN doc.defs}

\* C27: whenever every referenced type name is declared, every $ref of a
\* returned single document names a key of that document's $defs, for every
\* choice of rootType, an inlined root that other declarations reference
\* included.
C27_PointersResolve ==
  (ephase = "emitted" /\ AllDeclared) => Pointers(document) \subseteq DOMAIN document.defs

(***************************************************************************)
(* C30.  The root of a document emitted with rootType (spec.md 8).         *)
(***************************************************************************)
RootGiven == options.rootType # ""
RootForms == {Defs[options.rootType], RefSchema(options.rootType)}

\* C30: when rootType is given, the root of a returned document is the schema
\* of that type, inline or as a $ref to it; no document is returned when no
\* declaration has that name.
C30_RootDescribesRootType ==
  (ephase = "emitted" /\ RootGiven) =>
     /\ options.rootType \in Declared
     /\ document.root \in RootForms

(***************************************************************************)
(* C29.  $ref pointers of a batch entry (spec.md 8).                       *)
(***************************************************************************)
BatchReferenced == UNION {DeclReferences(n) : n \in Declared} \cap BatchNames
BatchAllDeclared == BatchReferenced \subseteq Declared

\* the $ref pointers of a schema, as emitted
RECURSIVE RefsIn(_)
RefsIn(schema) ==
  IF schema.t = "ref" THEN {schema}
  ELSE IF schema.t = "array" THEN RefsIn(schema.items)
  ELSE IF schema.t = "nullable" THEN RefsIn(schema.schema)
  ELSE IF schema.t = "anyOf" THEN UNION {RefsIn(schema.anyOf[i]) : i \in 1..Len(schema.anyOf)}
  ELSE IF schema.t = "object"
  THEN UNION {RefsIn(schema.properties[i].schema) : i \in 1..Len(schema.properties)}
         \cup RefsIn(schema.additionalProperties)
  ELSE {}

EntryRefs(entry) ==
  RefsIn(entry.schema) \cup UNION {RefsIn(entry.definitions[n]) : n \in DOMAIN entry.definitions}
ResolvesIn(entry, ref) == ref = DefinitionsRef(ref.ref) /\ ref.ref \in DOMAIN entry.definitions

\* C29: whenever every referenced type name is declared, every $ref inside a
\* batch entry has the form #/definitions/N with N a key of the definitions
\* block of that same entry.
C29_EntryPointersResolve ==
  (ephase = "emittedAll" /\ BatchAllDeclared) =>
     \A n \in DOMAIN document : \A ref \in EntryRefs(document[n]) : ResolvesIn(document[n], ref)

(***************************************************************************)
(* C28.  The pending doc comment of Parser.parse (spec.md 5).  A source    *)
(* text is written in lines of up to MaxItems items: doc comments,         *)
(* declarations with and without export, and a statement parse() skips.    *)
(***************************************************************************)
MaxItems == 3
Item(kind, raw, text, declares) ==
  [kind |-> kind, raw |-> raw, text |-> text, declares |-> declares]
DocTexts == {"first", "second", "@internal"}
DocItems == {Item("doc", raw, <<Token("jsdoc", raw)>>, <<>>) : raw \in DocTexts}
DeclarationItems ==
  { Item("declaration", "interface",
         <<Kw("interface"), Id("A"), Pn("{"), Pn("}")>>,
         <<[kind |-> "interface", name |-> "A"]>>),
    Item("declaration", "export type",
         <<Kw("export"), Kw("type"), Id("B"), Pn("="), Prim("string"), Pn(";")>>,
         <<[kind |-> "type_alias", name |-> "B"]>>),
    Item("declaration", "export const enum",
         <<Kw("export"), Kw("const"), Kw("enum"), Id("C"), Pn("{"), Id("a"), Pn("}")>>,
         <<[kind |-> "enum", name |-> "C"]>>) }
OtherItems ==
  { Item("other", "const",
         <<Kw("const"), Id("x"), Pn("="), Token("number", "1"), Pn(";")>>, <<>>) }
Items == DocItems \cup DeclarationItems \cup OtherItems

Line(items) ==
  Statement("line", items, Concat([k \in 1..Len(items) |-> items[k].text]),
            Concat([k \in 1..Len(items) |-> items[k].declares]))
\* a first line of every make, and after it lines of one item
DocStatements ==
  IF statements = <<>>
  THEN {Line(items) : items \in SeqsUpTo(Items, MaxItems) \ {<<>>}}
  ELSE {Line(<<item>>) : item \in Items}

DocInit == RIdle /\ EIdle /\ TInit /\ LIdle
DocNext ==
  \/ WriteStatement(DocStatements)
  \/ Parse
DocSpec == DocInit /\ [][DocNext]_vars

ItemsWritten == Concat([k \in 1..Len(statements) |-> statements[k].form])
DeclarationNodes ==
  SelectSeq(outcome.produced, LAMBDA node : node.kind \in {"interface", "type_alias", "enum"})
Descriptions == [k \in 1..Len(DeclarationNodes) |-> DeclarationNodes[k].description]

\* what the claim prescribes for the items from the k-th on: a doc comment
\* replaces the comment held, a declaration takes the comment held and leaves
\* none, anything else leaves it alone
RECURSIVE Prescribes(_, _, _)
Prescribes(k, held, given) ==
  IF k > Len(ItemsWritten) THEN [descriptions |-> given, held |-> held]
  ELSE IF ItemsWritten[k].kind = "doc"
  THEN Prescribes(k + 1, parseJSDocComment(ItemsWritten[k].raw), given)
  ELSE IF ItemsWritten[k].kind = "declaration"
  THEN Prescribes(k + 1, NoDoc, Append(given, held.description))
  ELSE Prescribes(k + 1, held, given)

\* C28: a top-level doc comment becomes the description of at most one
\* declaration, the first one parsed after it with no other doc comment in
\* between, whether or not export or a skipped statement stands between
\* them; once a declaration has taken the comment the pending slot is empty.
C28_DocOfNextDeclaration ==
  tphase = "returned" =>
     /\ Descriptions = Prescribes(1, NoDoc, <<>>).descriptions
     /\ outcome.pendingJSDoc = Prescribes(1, NoDoc, <<>>).held

\* a comment, a skipped statement, an exported declaration that takes the
\* comment and a declaration after it that has none
C28_TakenOnce ==
  /\ tphase = "returned"
  /\ Len(ItemsWritten) = 4
  /\ [k \in 1..4 |-> ItemsWritten[k].kind] = <<"doc", "other", "declaration", "declaration">>
  /\ ItemsWritten[3].raw = "export type"
  /\ Descriptions = <<ItemsWritten[1].raw, NoDescription>>
  /\ ItemsWritten[1].raw = "first"
  /\ outcome.pendingJSDoc = NoDoc
=============================================================================
